---- MODULE Spec2Model ----
(***************************************************************************)
(* ba::async::Queue (include/async/queue.hpp, the single-list variant with *)
(* the m_pendingOpsIsPushers flag) and detail::FunctionQueue.              *)
(*                                                                         *)
(* Every public operation of Queue takes the recursive mutex for its whole *)
(* body, so an operation is one atomic action; the threads of the          *)
(* initiators and of the executor appear as the interleaving of actions.   *)
(* Completions are only posted inside an operation (boost::asio::post):    *)
(* an operation returns, with the new members, the list of completions it  *)
(* has posted to the executor, in post order.                              *)
(***************************************************************************)
EXTENDS Integers, Sequences, FiniteSets

\* ---------------------------------------------------------------- bounds
\* Number of push/pop operations initiated in a run on one queue object
\* (Spec), and in a run with a second object, moves and destructions
\* (SpecLife). A try operation that fails takes no number.
MaxOps == 3
MaxOpsLife == 2
\* The same in a run without reset and move-assignment (SpecOrder).
MaxOpsOrder == 3
\* The same in a run in which the executor runs the posted handlers (SpecWork).
MaxOpsWork == 2
\* Number of asyncPush, and of asyncPop, initiated in a run of producers and
\* consumers only (SpecPairs).
MaxPairs == 2
\* Number of asyncPush/asyncPop operations initiated on the two-list queue
\* (SpecTwoLists).
MaxOpsTwoLists == 4
\* Number of push/pop operations the other threads initiate while queues are
\* moved (SpecMoves).
MaxOpsMoves == 2
\* Largest limit the queue of Spec is constructed with (0 is the rendezvous
\* channel). The objects of SpecLife and SpecOrder are a rendezvous channel
\* or have a buffer that the operations of a run can fill.
MaxLimit == 2
LimitsLife == {0, MaxLimit - 1}

\* The queue objects of a run: 1 is constructed at start, 2 is storage for a
\* second object (constructed, move-constructed, move-assigned, destroyed).
Queues == {1, 2}

\* ------------------------------------------------------------ error codes
OK == 0
OPERATION_CANCELLED == 1
QUEUE_CLOSED == 2
\* Used by tryPop (queue.hpp:988); the enum in error.hpp does not list it.
QUEUE_EMPTY == 3
\* Any error code of another category a caller may pass to close().
OTHER_ERROR == QUEUE_EMPTY + 1

\* The codes close() is called with in the model.
CloseArgs == {OK, QUEUE_CLOSED, OTHER_ERROR}

\* The value the factory F passed with pop h builds for ec: a value that is
\* no pushed element (pushed elements are the positive operation numbers).
defValueFactory(h, ec) == 0 - (h * (OTHER_ERROR + 1) + ec)

\* A push completion carries no value.
NoValue == 0

VARIABLES
    lifetime,               \* lifetime[q]: the object q is not yet constructed, alive, or destroyed
    m_limit,                \* per queue: Queue::m_limit
    m_queue,                \* per queue: Queue::m_queue, front first
    m_pendingOps,           \* per queue: Queue::m_pendingOps, front first
    m_pendingOpsIsPushers,  \* per queue: Queue::m_pendingOpsIsPushers
    m_closeState,           \* per queue: Queue::m_closeState
    budget,                 \* the number of push/pop operations the run may initiate
    nextId,                 \* the number the next push/pop operation gets: it names the
                            \* operation's handler, and a push pushes its number
    completions,            \* history: per operation number, the error codes of the
                            \* completions posted for it
    parkedEver,             \* history: the numbers of the operations that have been parked
    accepted,               \* history: per queue, the values of the pushes that succeeded on it
    delivered,              \* history: per queue, <<pop number, value>> of the pops that succeeded on it
    discarded,              \* history: elements dropped by reset, move-assignment, destruction
    failed,                 \* history: the assertions that have failed so far, by name
    outstandingWork,        \* the executor m_ex: its count of outstanding work (work guards
                            \* alive, handlers posted and not yet run)
    inFlight,               \* the executor m_ex: the number of handlers posted and not yet run
    m_pendingPush,          \* the Queue of async/queue/queue.hpp: its m_pendingPush, front first
    m_pendingPop,           \* the Queue of async/queue/queue.hpp: its m_pendingPop, front first
    m_mutex,                \* per queue: Queue::m_mutex, 1 while the moving thread holds it
    moving                  \* the thread that moves queues: where it is in the move, the
                            \* objects of the move and what they were when it began

vars == <<lifetime, m_limit, m_queue, m_pendingOps, m_pendingOpsIsPushers, m_closeState,
          budget, nextId, completions, parkedEver, accepted, delivered, discarded, failed,
          outstandingWork, inFlight, m_pendingPush, m_pendingPop, m_mutex, moving>>

\* ------------------------------------------------------------------------
\* What one operation works on: the members of *this, the completions it has
\* posted to the executor so far, the handlers it has called itself (on the
\* caller's stack, under the lock), the outstanding work it has added to the
\* executor so far (work guards made less work guards destroyed, plus handlers
\* posted), and the results of the assertions on the way. badAlloc is an
\* input: the allocator of the list has no memory to give; thrown is set when
\* an exception leaves the operation. events is what the operation has done
\* to the nodes of the list and to the executor so far, in order.
Self(q) ==
    [ m_limit |-> m_limit[q], m_queue |-> m_queue[q], m_pendingOps |-> m_pendingOps[q],
      m_pendingOpsIsPushers |-> m_pendingOpsIsPushers[q], m_closeState |-> m_closeState[q],
      posted |-> <<>>, invoked |-> <<>>, work |-> 0, failed |-> {},
      badAlloc |-> FALSE, thrown |-> FALSE, events |-> <<>> ]

\* hasPendingPush that trusts the flag without looking at the list.
hasPendingPushFlagOnly(c) == c.m_pendingOpsIsPushers

hasPendingPush(c) == c.m_pendingOpsIsPushers /\ c.m_pendingOps # <<>>

hasPendingPop(c) == ~c.m_pendingOpsIsPushers /\ c.m_pendingOps # <<>>

\* readyPush with <= for <.
readyPushInclusive(c) ==
    Len(c.m_queue) <= c.m_limit \/ (0 = c.m_limit /\ hasPendingPop(c))

\* readyPush without the rendezvous clause.
readyPushNoRendezvous(c) == Len(c.m_queue) < c.m_limit

readyPush(c) ==
    Len(c.m_queue) < c.m_limit \/ (0 = c.m_limit /\ hasPendingPop(c))

\* readyPop that never finds an element.
readyPopNever(c) == FALSE

readyPop(c) ==
    c.m_queue # <<>> \/ (0 = c.m_limit /\ hasPendingPush(c))

\* assert(cond) in the function named where: a failure is recorded and the
\* run goes on, as in a build with NDEBUG.
assert(c, where, cond) == IF cond THEN c ELSE [c EXCEPT !.failed = @ \cup {where}]

\* The four assertions of checkInvariant().
checkInvariant(c) ==
    LET c1 == assert(c, "checkInvariant1", Len(c.m_queue) <= c.m_limit)
        c2 == assert(c1, "checkInvariant2", Len(c.m_queue) = c.m_limit \/ ~hasPendingPush(c))
        c3 == assert(c2, "checkInvariant3", c.m_queue = <<>> \/ ~hasPendingPop(c))
    IN  assert(c3, "checkInvariant4", c.m_closeState = OK \/ c.m_pendingOps = <<>>)

\* LockGuard's constructor and destructor: lock or unlock, and checkInvariant().
LockGuard(c) == checkInvariant(c)

\* completePush that calls the handler instead of posting it.
completePushInline(c, h, ec) == [c EXCEPT !.invoked = Append(@, h)]

completePush(c, h, ec) ==
    [c EXCEPT !.posted = Append(@, [id |-> h, kind |-> "push", ec |-> ec, val |-> NoValue]),
              !.work = @ + 1,
              !.events = Append(@, <<"post", h>>)]

completePop(c, h, ec, val) ==
    [c EXCEPT !.posted = Append(@, [id |-> h, kind |-> "pop", ec |-> ec, val |-> val]),
              !.work = @ + 1,
              !.events = Append(@, <<"post", h>>)]

doPush(c, val) ==
    [assert(c, "doPush", Len(c.m_queue) <= c.m_limit) EXCEPT
        !.m_queue = Append(@, val),
        !.events = Append(@, <<"emplace", val, Len(c.m_queue) + 1>>)]

doAsyncPush(c, val, h) == completePush(doPush(c, val), h, OK)

\* doPop that removes the newest element.
doPopBack(c) ==
    IF c.m_queue = <<>> THEN assert(c, "doPop", FALSE)
    ELSE [c EXCEPT !.m_queue = SubSeq(@, 1, Len(@) - 1)]

doPop(c) ==
    IF c.m_queue = <<>> THEN assert(c, "doPop", FALSE)
    ELSE [c EXCEPT !.m_queue = Tail(@)]

\* doAsyncPop that hands the front element over and leaves it in the buffer.
doAsyncPopKeep(c, h) ==
    IF c.m_queue = <<>> THEN assert(c, "doAsyncPop", FALSE)
    ELSE completePop(c, h, OK, Head(c.m_queue))

doAsyncPop(c, h) ==
    IF c.m_queue = <<>> THEN assert(c, "doAsyncPop", FALSE)
    ELSE doPop(completePop(c, h, OK, Head(c.m_queue)))

\* The function objects deferPush and deferPop store, called with (self, ec).
\* The stored push that inserts its element whatever ec is.
pendingPushInserts(c, e, ec) == completePush(doPush(c, e.val), e.id, ec)

pendingPush(c, e, ec) ==
    IF ec # OK THEN completePush(c, e.id, ec)
    ELSE doAsyncPush(c, e.val, e.id)

\* The functor of a parked pop calling its factory with ok whatever ec is.
pendingPopFactoryOk(c, e, ec) ==
    IF ec # OK THEN completePop(c, e.id, ec, defValueFactory(e.id, OK))
    ELSE doAsyncPop(c, e.id)

pendingPop(c, e, ec) ==
    IF ec # OK THEN completePop(c, e.id, ec, defValueFactory(e.id, ec))
    ELSE doAsyncPop(c, e.id)

\* FunctionQueue::push linking the new node at the front.
FunctionQueue_pushFront(list, f) == <<f>> \o list

\* FunctionQueue::pop that unlinks the front node and never calls it.
FunctionQueue_popNoCall(c, ec) == [c EXCEPT !.m_pendingOps = Tail(@), !.work = @ - 1]

\* FunctionQueue::push: the new node goes to the back of the list.
FunctionQueue_push(list, f) == Append(list, f)

\* Holder::rebindAllocFrom: the allocator associated with the functor, the
\* default one when it has none. Handlers of odd number carry an allocator of
\* their own, named after them; 0 names the default allocator.
rebindAllocFrom(f, defAlloc) == IF f.id % 2 = 1 THEN f.id ELSE defAlloc

getDefAlloc == 0

\* FunctionQueue::push up to push_back: the memory of the node comes from the
\* allocator associated with the functor, and the holder is built in it.
allocate(c, f) ==
    [c EXCEPT !.events = @ \o <<<<"allocate", f.id, rebindAllocFrom(f, getDefAlloc)>>,
                                 <<"link", f.id>>>>]

\* Holder::destruct: the functor is moved to the stack, the holder is
\* destroyed, and its memory is given back to the allocator computed from the
\* copy of the functor; the copy is returned.
destruct(c, fn, defAlloc) ==
    [c EXCEPT !.events = @ \o <<<<"move", fn.id>>, <<"destroy", fn.id>>,
                                 <<"deallocate", fn.id, rebindAllocFrom(fn, defAlloc)>>>>]

\* Holder::disposableCall that calls the functor in the node and destructs
\* the node after the call.
disposableCallThenDestruct(c, fn, ec) ==
    destruct(IF fn.kind = "push" THEN pendingPush(c, fn, ec) ELSE pendingPop(c, fn, ec),
             fn, getDefAlloc)

\* Holder::disposableCall: destruct(defAlloc)(args...), the call of the copy
\* destruct returns.
disposableCall(c, fn, ec) ==
    LET c1 == destruct(c, fn, getDefAlloc)
    IN  IF fn.kind = "push" THEN pendingPush(c1, fn, ec) ELSE pendingPop(c1, fn, ec)

\* FunctionQueue::pop whose functor gives up its work guard before it is
\* called.
FunctionQueue_popReleasesFirst(c, ec) ==
    IF c.m_pendingOps = <<>> THEN assert(c, "FunctionQueue_pop", FALSE)
    ELSE LET fn == Head(c.m_pendingOps)
             c1 == [c EXCEPT !.m_pendingOps = Tail(@),
                             !.work = @ - 1,
                             !.events = @ \o <<<<"unlink", fn.id>>, <<"release", fn.id>>>>]
         IN  disposableCall(c1, fn, ec)

\* FunctionQueue::pop: unlinks the front node, then calls it once; the
\* functor, moved out of the node, is destroyed after the call, and its work
\* guard with it.
FunctionQueue_pop(c, ec) ==
    IF c.m_pendingOps = <<>> THEN assert(c, "FunctionQueue_pop", FALSE)
    ELSE LET fn == Head(c.m_pendingOps)
             c1 == [c EXCEPT !.m_pendingOps = Tail(@),
                             !.events = Append(@, <<"unlink", fn.id>>)]
             c2 == disposableCall(c1, fn, ec)
         IN  [c2 EXCEPT !.work = @ - 1, !.events = Append(@, <<"release", fn.id>>)]

\* deferPush that sets the role flag before it pushes to the list.
deferPushFlagFirst(c, h, val) ==
    LET c1 == assert(c, "deferPush", ~hasPendingPop(c))
        c2 == [c1 EXCEPT !.work = @ + 1,
                         !.m_pendingOps =
                            FunctionQueue_push(@, [id |-> h, kind |-> "push", val |-> val]),
                         !.m_pendingOpsIsPushers = TRUE]
    IN  IF c.badAlloc THEN [c1 EXCEPT !.m_pendingOpsIsPushers = TRUE, !.thrown = TRUE]
        ELSE assert(c2, "deferPush", ~hasPendingPop(c2) /\ hasPendingPush(c2))

\* make_work_guard(m_ex): the functor pushed to the list holds the guard.
\* When FunctionQueue::push throws (no memory for the node) the functor is
\* destroyed with its guard, its handler and its element, and the exception
\* leaves deferPush before the flag is written.
deferPush(c, h, val) ==
    LET c1 == assert(c, "deferPush", ~hasPendingPop(c))
        f  == [id |-> h, kind |-> "push", val |-> val]
        c2 == [allocate(c1, f) EXCEPT !.work = @ + 1,
                                      !.m_pendingOps = FunctionQueue_push(@, f),
                                      !.m_pendingOpsIsPushers = TRUE]
    IN  IF c.badAlloc THEN [c1 EXCEPT !.work = @ + 1 - 1, !.thrown = TRUE]
        ELSE assert(c2, "deferPush", ~hasPendingPop(c2) /\ hasPendingPush(c2))

\* deferPop whose functor holds no work guard.
deferPopNoWork(c, h) ==
    LET c1 == assert(c, "deferPop", ~hasPendingPush(c))
        c2 == [c1 EXCEPT !.m_pendingOps =
                            FunctionQueue_push(@, [id |-> h, kind |-> "pop", val |-> NoValue]),
                         !.m_pendingOpsIsPushers = FALSE]
    IN  IF c.badAlloc THEN [c1 EXCEPT !.work = @ + 1 - 1, !.thrown = TRUE]
        ELSE assert(c2, "deferPop", ~hasPendingPush(c2) /\ hasPendingPop(c2))

deferPop(c, h) ==
    LET c1 == assert(c, "deferPop", ~hasPendingPush(c))
        f  == [id |-> h, kind |-> "pop", val |-> NoValue]
        c2 == [allocate(c1, f) EXCEPT !.work = @ + 1,
                                      !.m_pendingOps = FunctionQueue_push(@, f),
                                      !.m_pendingOpsIsPushers = FALSE]
    IN  IF c.badAlloc THEN [c1 EXCEPT !.work = @ + 1 - 1, !.thrown = TRUE]
        ELSE assert(c2, "deferPop", ~hasPendingPush(c2) /\ hasPendingPop(c2))

\* doPendingPush / doPendingPop return [c, ret]: the state and the bool.
doPendingPush(c, ec) ==
    IF ~hasPendingPush(c) THEN [c |-> c, ret |-> FALSE]
    ELSE LET c1 == FunctionQueue_pop(c, ec)
         IN  [c |-> assert(c1, "doPendingPush", ~hasPendingPop(c1)), ret |-> TRUE]

\* doPendingPop that leaves the parked pop where it is.
doPendingPopNever(c, ec) == [c |-> c, ret |-> FALSE]

doPendingPop(c, ec) ==
    IF ~hasPendingPop(c) THEN [c |-> c, ret |-> FALSE]
    ELSE LET c1 == FunctionQueue_pop(c, ec)
         IN  [c |-> assert(c1, "doPendingPop", ~hasPendingPush(c1)), ret |-> TRUE]

\* doCancel's loop: pops until the list is empty, counting.
RECURSIVE doCancelLoop(_, _, _)
doCancelLoop(c, ec, n) ==
    IF c.m_pendingOps = <<>> THEN [c |-> c, ret |-> n]
    ELSE doCancelLoop(FunctionQueue_pop(c, ec), ec, n + 1)

doCancel(c, ec) ==
    LET r == doCancelLoop(c, ec, 0)
    IN  [c |-> assert(r.c, "doCancel", ~hasPendingPush(r.c) /\ ~hasPendingPop(r.c)), ret |-> r.ret]

\* initPush that serves the parked pop before it completes the push.
initPushCompletesLast(c0, val, h) ==
    LET c == LockGuard(c0)
    IN  LockGuard(
          IF c.m_closeState # OK THEN completePush(c, h, c.m_closeState)
          ELSE IF readyPush(c) THEN completePush(doPendingPop(doPush(c, val), OK).c, h, OK)
          ELSE deferPush(c, h, val))

\* initPush that does not fire the parked pop after it has pushed.
initPushNoWake(c0, val, h) ==
    LET c == LockGuard(c0)
    IN  LockGuard(
          IF c.m_closeState # OK THEN completePush(c, h, c.m_closeState)
          ELSE IF readyPush(c) THEN doAsyncPush(c, val, h)
          ELSE deferPush(c, h, val))

initPush(c0, val, h) ==
    LET c == LockGuard(c0)
    IN  LockGuard(
          IF c.m_closeState # OK THEN completePush(c, h, c.m_closeState)
          ELSE IF readyPush(c) THEN doPendingPop(doAsyncPush(c, val, h), OK).c
          ELSE deferPush(c, h, val))

\* initPop that does not fire a parked push first.
initPopNoMatch(c0, h) ==
    LET c == LockGuard(c0)
    IN  LockGuard(
          IF readyPop(c) THEN doAsyncPop(c, h)
          ELSE IF c.m_closeState = OK THEN deferPop(c, h)
          ELSE completePop(c, h, c.m_closeState, defValueFactory(h, c.m_closeState)))

\* initPop that looks at the close state before the buffer.
initPopClosedFirst(c0, h) ==
    LET c == LockGuard(c0)
        p == doPendingPush(c, OK)
    IN  LockGuard(
          IF p.c.m_closeState # OK
          THEN completePop(p.c, h, p.c.m_closeState, defValueFactory(h, p.c.m_closeState))
          ELSE IF p.ret \/ readyPop(p.c) THEN doAsyncPop(p.c, h)
          ELSE deferPop(p.c, h))

initPop(c0, h) ==
    LET c == LockGuard(c0)
        p == doPendingPush(c, OK)
    IN  LockGuard(
          IF p.ret \/ readyPop(p.c) THEN doAsyncPop(p.c, h)
          ELSE IF p.c.m_closeState = OK THEN deferPop(p.c, h)
          ELSE completePop(p.c, h, p.c.m_closeState, defValueFactory(h, p.c.m_closeState)))

\* tryPush that does not look at the close state.
tryPushIgnoresClose(c0, val) ==
    LET c == LockGuard(c0)
    IN  IF ~readyPush(c) THEN [c |-> LockGuard(c), ret |-> FALSE]
        ELSE [c |-> LockGuard(doPendingPop(doPush(c, val), OK).c), ret |-> TRUE]

\* tryPop that fails on a closed queue.
tryPopClosedFails(c0, h) ==
    LET c == LockGuard(c0)
        p == IF c.m_closeState # OK THEN [c |-> c, ret |-> FALSE] ELSE doPendingPush(c, OK)
    IN  IF c.m_closeState # OK \/ (~p.ret /\ ~readyPop(p.c))
        THEN [c |-> LockGuard(p.c), ret |-> FALSE, val |-> defValueFactory(h, QUEUE_EMPTY)]
        ELSE [c |-> LockGuard(doPop(p.c)), ret |-> TRUE, val |-> Head(p.c.m_queue)]

\* tryPop that parks a pop when there is nothing to take.
tryPopParks(c0, h) ==
    LET c == LockGuard(c0)
        p == doPendingPush(c, OK)
    IN  IF ~p.ret /\ ~readyPop(p.c)
        THEN [c |-> LockGuard(deferPop(p.c, h)), ret |-> FALSE,
              val |-> defValueFactory(h, QUEUE_EMPTY)]
        ELSE [c |-> LockGuard(doPop(p.c)), ret |-> TRUE, val |-> Head(p.c.m_queue)]

\* tryPush / tryPop return [c, ret] (and tryPop the value in val).
tryPush(c0, val) ==
    LET c == LockGuard(c0)
    IN  IF ~readyPush(c) \/ c.m_closeState # OK THEN [c |-> LockGuard(c), ret |-> FALSE]
        ELSE [c |-> LockGuard(doPendingPop(doPush(c, val), OK).c), ret |-> TRUE]

tryPop(c0, h) ==
    LET c == LockGuard(c0)
        p == doPendingPush(c, OK)
    IN  IF ~p.ret /\ ~readyPop(p.c)
        THEN [c |-> LockGuard(p.c), ret |-> FALSE, val |-> defValueFactory(h, QUEUE_EMPTY)]
        ELSE IF p.c.m_queue = <<>>
        THEN [c |-> LockGuard(assert(p.c, "doPop", FALSE)), ret |-> FALSE, val |-> NoValue]
        ELSE [c |-> LockGuard(doPop(p.c)), ret |-> TRUE, val |-> Head(p.c.m_queue)]

\* cancel that stops after the first parked operation.
cancelStopsAfterOne(c0) ==
    LET c == LockGuard(c0)
    IN  IF c.m_pendingOps = <<>> THEN [c |-> LockGuard(c), ret |-> 0]
        ELSE [c |-> LockGuard(FunctionQueue_pop(c, OPERATION_CANCELLED)), ret |-> 1]

\* cancel that also clears the close state.
cancelReopens(c0) ==
    LET r == doCancel(LockGuard(c0), OPERATION_CANCELLED)
    IN  [c |-> LockGuard([r.c EXCEPT !.m_closeState = OK]), ret |-> r.ret]

cancel(c0) ==
    LET r == doCancel(LockGuard(c0), OPERATION_CANCELLED)
    IN  [c |-> LockGuard(r.c), ret |-> r.ret]

\* cancelOnePush that cancels the oldest parked operation of either role.
cancelOnePushAnyRole(c0) ==
    LET c == LockGuard(c0)
    IN  IF c.m_pendingOps = <<>> THEN [c |-> LockGuard(c), ret |-> 0]
        ELSE [c |-> LockGuard(FunctionQueue_pop(c, OPERATION_CANCELLED)), ret |-> 1]

cancelOnePush(c0) ==
    LET r == doPendingPush(LockGuard(c0), OPERATION_CANCELLED)
    IN  [c |-> LockGuard(r.c), ret |-> IF r.ret THEN 1 ELSE 0]

cancelOnePop(c0) ==
    LET r == doPendingPop(LockGuard(c0), OPERATION_CANCELLED)
    IN  [c |-> LockGuard(r.c), ret |-> IF r.ret THEN 1 ELSE 0]

cancelPush(c0) ==
    LET c == LockGuard(c0)
    IN  IF ~c.m_pendingOpsIsPushers THEN [c |-> LockGuard(c), ret |-> 0]
        ELSE LET r == cancel(c) IN [c |-> LockGuard(r.c), ret |-> r.ret]

\* cancelPop with the test of the flag inverted.
cancelPopInverted(c0) ==
    LET c == LockGuard(c0)
    IN  IF ~c.m_pendingOpsIsPushers THEN [c |-> LockGuard(c), ret |-> 0]
        ELSE LET r == cancel(c) IN [c |-> LockGuard(r.c), ret |-> r.ret]

cancelPop(c0) ==
    LET c == LockGuard(c0)
    IN  IF c.m_pendingOpsIsPushers THEN [c |-> LockGuard(c), ret |-> 0]
        ELSE LET r == cancel(c) IN [c |-> LockGuard(r.c), ret |-> r.ret]

\* reset that leaves the parked operations where they are.
resetNoCancel(c0) ==
    LET c == LockGuard(c0)
    IN  LockGuard([c EXCEPT !.m_queue = <<>>, !.m_closeState = OK])

reset(c0) ==
    LET c  == LockGuard(c0)
        c1 == [c EXCEPT !.m_queue = <<>>]
        r  == doCancel(c1, OPERATION_CANCELLED)
    IN  LockGuard([r.c EXCEPT !.m_closeState = OK])

\* close that only sets the close state.
closeNoCancel(c0, ec) ==
    IF ec = OK THEN c0
    ELSE LockGuard([LockGuard(c0) EXCEPT !.m_closeState = ec])

close(c0, ec) ==
    IF ec = OK THEN c0
    ELSE LET c == LockGuard(c0)
         IN  LockGuard(doCancel([c EXCEPT !.m_closeState = ec], ec).c)

\* What a call of close can return: `return;` in the ec = ok branch gives no
\* value and the other branch runs off the end of the function, so the bool
\* the caller reads is whatever the build leaves there.
closeReturns(c0, ec) == BOOLEAN

\* closeState() and isOpen(): what they return (the LockGuard changes nothing).
closeState(c) == LockGuard(c).m_closeState

isOpen(c) == LockGuard(c).m_closeState = OK

\* The members after Queue(ex, limit): empty, nothing parked, open.
Fresh(limit) ==
    [ m_limit |-> limit, m_queue |-> <<>>, m_pendingOps |-> <<>>,
      m_pendingOpsIsPushers |-> FALSE, m_closeState |-> OK,
      posted |-> <<>>, invoked |-> <<>>, work |-> 0, failed |-> {},
      badAlloc |-> FALSE, thrown |-> FALSE, events |-> <<>> ]

\* A destructor that releases the storage without cancel().
destructorNoCancel(c0) == assert(c0, "FunctionQueue_clear", c0.m_pendingOps = <<>>)

\* ~Queue(): cancel(), then the members are destroyed; ~FunctionQueue() calls
\* clear(), which asserts the list is empty before it disposes of the nodes.
destructor(c0) ==
    LET r == cancel(c0)
    IN  assert(r.c, "FunctionQueue_clear", r.c.m_pendingOps = <<>>)

\* Queue(Queue&& other, const LockGuard&): returns the new object (this) and
\* what is left in other. The moved-from container and list are empty; limit,
\* flag and close state of other stay as they were.
moveConstruct(o0) ==
    LET o  == LockGuard(o0)
        o1 == [o EXCEPT !.m_queue = <<>>, !.m_pendingOps = <<>>]
    IN  [this |-> o, other |-> LockGuard(o1)]

\* operator= that does not reset *this before it takes other's members.
moveAssignNoReset(t0, o0) ==
    LET o  == checkInvariant(o0)
        t3 == [t0 EXCEPT !.m_limit = o.m_limit, !.m_queue = o.m_queue,
                         !.m_pendingOps = o.m_pendingOps,
                         !.m_pendingOpsIsPushers = o.m_pendingOpsIsPushers,
                         !.m_closeState = o.m_closeState]
        t4 == checkInvariant(t3)
        o1 == [o EXCEPT !.m_queue = <<>>, !.m_pendingOps = <<>>, !.posted = t4.posted,
                        !.work = t4.work, !.failed = @ \cup t4.failed]
    IN  [this |-> t4, other |-> reset(o1)]

\* Queue::operator=(Queue&&) for this != &other. The posted list and the
\* executor are one: other continues from what this has posted.
moveAssign(t0, o0) ==
    LET o  == checkInvariant(o0)
        t1 == reset(t0)
        \* FunctionQueue::operator= : clear() asserts the list is empty
        t2 == assert(t1, "FunctionQueue_clear", t1.m_pendingOps = <<>>)
        t3 == [t2 EXCEPT !.m_limit = o.m_limit, !.m_queue = o.m_queue,
                         !.m_pendingOps = o.m_pendingOps,
                         !.m_pendingOpsIsPushers = o.m_pendingOpsIsPushers,
                         !.m_closeState = o.m_closeState]
        t4 == checkInvariant(t3)
        o1 == [o EXCEPT !.m_queue = <<>>, !.m_pendingOps = <<>>, !.posted = t4.posted,
                        !.work = t4.work, !.failed = @ \cup t4.failed]
    IN  [this |-> t4, other |-> reset(o1)]

\* ------------------------------------------------------------------------
\* Writing the members of q back, and the history every action keeps.
Elems(s) == {s[i] : i \in DOMAIN s}

ParkedIds(list) == {list[i].id : i \in DOMAIN list}

alive(q) == lifetime[q] = "alive"

AllParkedIds == UNION {ParkedIds(m_pendingOps[q]) : q \in Queues}

\* The error codes of the completions in out that are for handler h.
RECURSIVE CompletionsOf(_, _)
CompletionsOf(out, h) ==
    IF out = <<>> THEN <<>>
    ELSE LET r == Head(out)
         IN  (IF r.id = h THEN <<r.ec>> ELSE <<>>) \o CompletionsOf(Tail(out), h)

PushesOk(out) == {out[i].id : i \in {j \in DOMAIN out : out[j].kind = "push" /\ out[j].ec = OK}}

PopsOk(out) ==
    {<<out[i].id, out[i].val>> : i \in {j \in DOMAIN out : out[j].kind = "pop" /\ out[j].ec = OK}}

\* out: the completions the operation on q has posted; acc, del: what a try
\* operation has accepted or delivered itself; dw: the outstanding work the
\* operation has added to the executor.
History(q, out, fails, acc, del, dw) ==
    /\ completions' = [h \in DOMAIN completions |->
                         completions[h] \o CompletionsOf(out, h)]
    /\ accepted' = [accepted EXCEPT ![q] = @ \cup PushesOk(out) \cup acc]
    /\ delivered' = [delivered EXCEPT ![q] = @ \cup PopsOk(out) \cup del]
    /\ parkedEver' = parkedEver \cup AllParkedIds'
    /\ failed' = failed \cup fails
    /\ outstandingWork' = outstandingWork + dw
    /\ inFlight' = inFlight + Len(out)
    /\ UNCHANGED <<m_pendingPush, m_pendingPop, m_mutex, moving>>

Members(q, c) ==
    /\ m_limit' = [m_limit EXCEPT ![q] = c.m_limit]
    /\ m_queue' = [m_queue EXCEPT ![q] = c.m_queue]
    /\ m_pendingOps' = [m_pendingOps EXCEPT ![q] = c.m_pendingOps]
    /\ m_pendingOpsIsPushers' = [m_pendingOpsIsPushers EXCEPT ![q] = c.m_pendingOpsIsPushers]
    /\ m_closeState' = [m_closeState EXCEPT ![q] = c.m_closeState]

Members2(d, cd, s, cs) ==
    /\ m_limit' = [m_limit EXCEPT ![d] = cd.m_limit, ![s] = cs.m_limit]
    /\ m_queue' = [m_queue EXCEPT ![d] = cd.m_queue, ![s] = cs.m_queue]
    /\ m_pendingOps' = [m_pendingOps EXCEPT ![d] = cd.m_pendingOps, ![s] = cs.m_pendingOps]
    /\ m_pendingOpsIsPushers' = [m_pendingOpsIsPushers EXCEPT
                                   ![d] = cd.m_pendingOpsIsPushers, ![s] = cs.m_pendingOpsIsPushers]
    /\ m_closeState' = [m_closeState EXCEPT ![d] = cd.m_closeState, ![s] = cs.m_closeState]

Store(q, c) ==
    /\ Members(q, c)
    /\ History(q, c.posted, c.failed, {}, {}, c.work)

InitOf(b, limits) ==
    /\ budget = b
    /\ lifetime = [q \in Queues |-> IF q = 1 THEN "alive" ELSE "none"]
    /\ m_limit \in {[q \in Queues |-> IF q = 1 THEN l ELSE 0] : l \in limits}
    /\ m_queue = [q \in Queues |-> <<>>]
    /\ m_pendingOps = [q \in Queues |-> <<>>]
    /\ m_pendingOpsIsPushers = [q \in Queues |-> FALSE]
    /\ m_closeState = [q \in Queues |-> OK]
    /\ nextId = 1
    /\ completions = [h \in 1..b |-> <<>>]
    /\ parkedEver = {}
    /\ accepted = [q \in Queues |-> {}]
    /\ delivered = [q \in Queues |-> {}]
    /\ discarded = {}
    /\ failed = {}
    /\ outstandingWork = 0
    /\ inFlight = 0
    /\ m_pendingPush = <<>>
    /\ m_pendingPop = <<>>
    /\ m_mutex = [q \in Queues |-> 0]
    /\ moving = [pc |-> "idle", kind |-> "none", this |-> 1, other |-> 1, before |-> <<>>]

AsyncPush(q) ==
    /\ alive(q) /\ nextId <= budget
    /\ Store(q, initPush(Self(q), nextId, nextId))
    /\ nextId' = nextId + 1
    /\ UNCHANGED <<lifetime, budget, discarded>>

AsyncPop(q) ==
    /\ alive(q) /\ nextId <= budget
    /\ Store(q, initPop(Self(q), nextId))
    /\ nextId' = nextId + 1
    /\ UNCHANGED <<lifetime, budget, discarded>>

\* asyncPush and asyncPop when the allocator of the list has no memory: the
\* calls that get as far as parking, and throw.
NoMemory(q) == [Self(q) EXCEPT !.badAlloc = TRUE]

AsyncPushBadAlloc(q) ==
    /\ alive(q) /\ nextId <= budget
    /\ LET c == initPush(NoMemory(q), nextId, nextId)
       IN  c.thrown /\ Store(q, c)
    /\ UNCHANGED <<lifetime, budget, nextId, discarded>>

AsyncPopBadAlloc(q) ==
    /\ alive(q) /\ nextId <= budget
    /\ LET c == initPop(NoMemory(q), nextId)
       IN  c.thrown /\ Store(q, c)
    /\ UNCHANGED <<lifetime, budget, nextId, discarded>>

\* ok is the bool tryPush returns.
TryPush(q, ok) ==
    /\ alive(q) /\ nextId <= budget
    /\ LET r == tryPush(Self(q), nextId)
       IN  /\ ok = r.ret
           /\ Members(q, r.c)
           /\ History(q, r.c.posted, r.c.failed, IF r.ret THEN {nextId} ELSE {}, {}, r.c.work)
           /\ nextId' = IF r.ret THEN nextId + 1 ELSE nextId
    /\ UNCHANGED <<lifetime, budget, discarded>>

\* ok is what tryPop writes to success.
TryPop(q, ok) ==
    /\ alive(q) /\ nextId <= budget
    /\ LET r == tryPop(Self(q), nextId)
       IN  /\ ok = r.ret
           /\ Members(q, r.c)
           /\ History(q, r.c.posted, r.c.failed, {},
                      IF r.ret THEN {<<nextId, r.val>>} ELSE {}, r.c.work)
           /\ nextId' = IF r.ret THEN nextId + 1 ELSE nextId
    /\ UNCHANGED <<lifetime, budget, discarded>>

CancelOps == {"cancel", "cancelPush", "cancelPop", "cancelOnePush", "cancelOnePop"}

CancelCall(f, c) ==
    CASE f = "cancel" -> cancel(c)
      [] f = "cancelPush" -> cancelPush(c)
      [] f = "cancelPop" -> cancelPop(c)
      [] f = "cancelOnePush" -> cancelOnePush(c)
      [] OTHER -> cancelOnePop(c)

\* The five cancel operations.
Cancel(q, f) ==
    /\ alive(q)
    /\ Store(q, CancelCall(f, Self(q)).c)
    /\ UNCHANGED <<lifetime, budget, nextId, discarded>>

Reset(q) ==
    /\ alive(q)
    /\ Store(q, reset(Self(q)))
    /\ discarded' = discarded \cup Elems(m_queue[q])
    /\ UNCHANGED <<lifetime, budget, nextId>>

Close(q, ec) ==
    /\ alive(q)
    /\ Store(q, close(Self(q), ec))
    /\ UNCHANGED <<lifetime, budget, nextId, discarded>>

\* Queue(ex, limit): a new object in free storage; the constructor ends with
\* checkInvariant().
Construct(q, limit) ==
    /\ lifetime[q] = "none"
    /\ lifetime' = [lifetime EXCEPT ![q] = "alive"]
    /\ Store(q, checkInvariant(Fresh(limit)))
    /\ UNCHANGED <<budget, nextId, discarded>>

\* ~Queue(): the object is destroyed with what it holds.
Destroy(q) ==
    /\ alive(q)
    /\ LET c == destructor(Self(q))
       IN  /\ Members(q, Fresh(0))
           /\ History(q, c.posted, c.failed, {}, {}, c.work)
           /\ discarded' = discarded \cup Elems(c.m_queue)
    /\ lifetime' = [lifetime EXCEPT ![q] = "ended"]
    /\ UNCHANGED <<budget, nextId>>

\* Queue(Queue&& other): d is constructed from s under LockGuard{ s }.
MoveConstruct(d, s) ==
    /\ lifetime[d] = "none" /\ alive(s)
    /\ LET r == moveConstruct(Self(s))
       IN  /\ Members2(d, r.this, s, r.other)
           /\ History(d, r.other.posted, r.this.failed \cup r.other.failed, {}, {},
                      r.other.work)
    /\ lifetime' = [lifetime EXCEPT ![d] = "alive"]
    /\ UNCHANGED <<budget, nextId, discarded>>

\* d = std::move(s), for d and s two objects.
MoveAssign(d, s) ==
    /\ alive(d) /\ alive(s) /\ d # s
    /\ LET r == moveAssign(Self(d), Self(s))
       IN  /\ Members2(d, r.this, s, r.other)
           /\ History(d, r.other.posted, r.this.failed \cup r.other.failed, {}, {},
                      r.other.work)
    /\ discarded' = discarded \cup Elems(m_queue[d])
    /\ UNCHANGED <<lifetime, budget, nextId>>

\* The asynchronous operations and what completes them early.
Async ==
    \E q \in Queues :
        \/ AsyncPush(q)
        \/ AsyncPop(q)
        \/ \E f \in CancelOps : Cancel(q, f)
        \/ Reset(q)
        \/ \E ec \in CloseArgs : Close(q, ec)

\* The synchronous operations.
Try ==
    \E q \in Queues :
        \/ \E ok \in BOOLEAN : TryPush(q, ok)
        \/ \E ok \in BOOLEAN : TryPop(q, ok)

\* The operations on the queue objects that are alive.
Next == Async \/ Try

\* Construction, destruction and moves of queue objects.
Life ==
    \E q \in Queues :
        \/ \E limit \in LimitsLife : Construct(q, limit)
        \/ Destroy(q)
        \/ \E s \in Queues : MoveConstruct(q, s)
        \/ \E s \in Queues : MoveAssign(q, s)

NextLife == Next \/ Life

Init == InitOf(MaxOps, 0..MaxLimit)

InitLife == InitOf(MaxOpsLife, LimitsLife)

\* A run without reset, move-assignment and construction from scratch: the
\* operations, destruction, and move-construction of object 2.
NextOrder ==
    \E q \in Queues :
        \/ AsyncPush(q)
        \/ AsyncPop(q)
        \/ \E ok \in BOOLEAN : TryPush(q, ok)
        \/ \E ok \in BOOLEAN : TryPop(q, ok)
        \/ \E f \in CancelOps : Cancel(q, f)
        \/ \E ec \in CloseArgs : Close(q, ec)
        \/ Destroy(q)
        \/ \E s \in Queues : MoveConstruct(q, s)

InitOrder == InitOf(MaxOpsOrder, LimitsLife)

\* One queue object, used by any number of threads.
Spec == Init /\ [][Next]_vars

\* Two queue objects with construction, destruction and moves.
SpecLife == InitLife /\ [][NextLife]_vars

SpecOrder == InitOrder /\ [][NextOrder]_vars

\* A thread in io_context::run() takes one posted handler and runs it to its
\* end: the work the post stood for is finished. What the handler calls on
\* the queues are the other actions.
Run ==
    /\ inFlight > 0
    /\ inFlight' = inFlight - 1
    /\ outstandingWork' = outstandingWork - 1
    /\ UNCHANGED <<lifetime, m_limit, m_queue, m_pendingOps, m_pendingOpsIsPushers,
                   m_closeState, budget, nextId, completions, parkedEver, accepted,
                   delivered, discarded, failed, m_pendingPush, m_pendingPop, m_mutex,
                   moving>>

\* io_context::run() returns when the executor has no outstanding work.
RunCanReturn == outstandingWork = 0

BadAlloc == \E q \in Queues : AsyncPushBadAlloc(q) \/ AsyncPopBadAlloc(q)

NextWork == NextOrder \/ Run \/ BadAlloc

InitWork == InitOf(MaxOpsWork, LimitsLife)

\* The queue objects and the executor that runs the handlers they post.
SpecWork == InitWork /\ [][NextWork]_vars

\* Producers and consumers on object 1, nothing else: the asyncPush
\* initiated so far have completed with ok or are parked, the other
\* operations initiated so far are the asyncPop.
PushesInitiated ==
    Cardinality(accepted[1]) + (IF hasPendingPush(Self(1)) THEN Len(m_pendingOps[1]) ELSE 0)

PopsInitiated == (nextId - 1) - PushesInitiated

Produce == PushesInitiated < MaxPairs /\ AsyncPush(1)

Consume == PopsInitiated < MaxPairs /\ AsyncPop(1)

NextPairs == Produce \/ Consume \/ Run

InitPairs == InitOf(2 * MaxPairs, 0..MaxLimit)

\* All the operations of the run have been initiated.
AllInitiated == nextId > 2 * MaxPairs

\* MaxPairs asyncPush and MaxPairs asyncPop in any interleaving, and an
\* executor (threads in io_context::run()) that goes on running what is posted.
SpecPairs == InitPairs /\ [][NextPairs]_vars /\ WF_vars(Run)

\* ------------------------------------------------------------------------
\* The Queue of async/queue/queue.hpp, which keeps the parked pushes and the
\* parked pops in two lists, m_pendingPush and m_pendingPop, and has no close
\* state. Object 1 is of this class in SpecTwoLists. An operation works on
\* the members, the completions posted so far and the assertions that failed.
TwoLists_Self ==
    [ m_limit |-> m_limit[1], m_queue |-> m_queue[1],
      m_pendingPush |-> m_pendingPush, m_pendingPop |-> m_pendingPop,
      posted |-> <<>>, failed |-> {} ]

\* The three assertions of checkInvariant().
TwoLists_checkInvariant(c) ==
    LET c1 == assert(c, "TwoLists_checkInvariant1", Len(c.m_queue) <= c.m_limit)
        c2 == assert(c1, "TwoLists_checkInvariant2", c.m_queue = <<>> \/ c.m_pendingPop = <<>>)
    IN  assert(c2, "TwoLists_checkInvariant3",
               Len(c.m_queue) = c.m_limit \/ c.m_pendingPush = <<>>)

\* LockGuard's constructor and destructor: lock or unlock the recursive
\* mutex, and checkInvariant().
TwoLists_LockGuard(c) == TwoLists_checkInvariant(c)

TwoLists_completePush(c, h, ec) ==
    [c EXCEPT !.posted = Append(@, [id |-> h, kind |-> "push", ec |-> ec, val |-> NoValue])]

\* val is the optional the handler gets: NoValue stands for the empty one.
TwoLists_completePop(c, val, h, ec) ==
    [c EXCEPT !.posted = Append(@, [id |-> h, kind |-> "pop", ec |-> ec, val |-> val])]

TwoLists_doPush(c, val, h, ec) ==
    TwoLists_completePush(IF ec = OK THEN [c EXCEPT !.m_queue = Append(@, val)] ELSE c, h, ec)

TwoLists_doPop(c, h, ec) ==
    IF ec # OK THEN TwoLists_completePop(c, NoValue, h, ec)
    ELSE IF c.m_queue = <<>> THEN assert(c, "TwoLists_doPop", FALSE)
    ELSE [TwoLists_completePop(c, Head(c.m_queue), h, ec) EXCEPT !.m_queue = Tail(@)]

TwoLists_deferPush(c, h, val) ==
    [c EXCEPT !.m_pendingPush = Append(@, [id |-> h, kind |-> "push", val |-> val])]

TwoLists_deferPop(c, h) ==
    [c EXCEPT !.m_pendingPop = Append(@, [id |-> h, kind |-> "pop", val |-> NoValue])]

\* m_pendingPush.front()(*this, ec), then m_pendingPush.pop().
TwoLists_doPendingPush(c, ec) ==
    LET fn == Head(c.m_pendingPush)
    IN  [TwoLists_doPush(c, fn.val, fn.id, ec) EXCEPT !.m_pendingPush = Tail(@)]

\* m_pendingPop.front()(*this, val, ec), then m_pendingPop.pop().
TwoLists_doPendingPop(c, val, ec) ==
    LET fn == Head(c.m_pendingPop)
    IN  [TwoLists_completePop(c, val, fn.id, ec) EXCEPT !.m_pendingPop = Tail(@)]

TwoLists_initPush(c0, val, h) ==
    LET c == TwoLists_LockGuard(c0)
    IN  TwoLists_LockGuard(
          IF c.m_queue = <<>> /\ c.m_pendingPop # <<>>
          THEN TwoLists_doPendingPop(TwoLists_completePush(c, h, OK), val, OK)
          ELSE IF Len(c.m_queue) < c.m_limit THEN TwoLists_doPush(c, val, h, OK)
          ELSE TwoLists_deferPush(c, h, val))

TwoLists_initPop(c0, h) ==
    LET c == TwoLists_LockGuard(c0)
    IN  TwoLists_LockGuard(
          IF c.m_queue = <<>> /\ c.m_pendingPush # <<>>
          THEN LET c1 == TwoLists_doPendingPush(c, OK)
               IN  TwoLists_doPop(assert(c1, "TwoLists_initPop", Len(c1.m_queue) = 1), h, OK)
          ELSE IF c.m_queue = <<>> THEN TwoLists_deferPop(c, h)
          ELSE LET c2 == TwoLists_doPop(c, h, OK)
               IN  IF c2.m_pendingPush # <<>> THEN TwoLists_doPendingPush(c2, OK) ELSE c2)

\* The cancel operations return [c, ret]: the state and the count.
TwoLists_cancelOnePush(c0) ==
    LET c == TwoLists_LockGuard(c0)
    IN  IF c.m_pendingPush = <<>> THEN [c |-> TwoLists_LockGuard(c), ret |-> 0]
        ELSE [c |-> TwoLists_LockGuard(TwoLists_doPendingPush(c, OPERATION_CANCELLED)),
              ret |-> 1]

RECURSIVE TwoLists_cancelPushLoop(_, _)
\* while (cancelOnePush()) ++n;
TwoLists_cancelPushLoop(c, n) ==
    LET r == TwoLists_cancelOnePush(c)
    IN  IF r.ret = 0 THEN [c |-> r.c, ret |-> n] ELSE TwoLists_cancelPushLoop(r.c, n + 1)

TwoLists_cancelPush(c0) ==
    LET r == TwoLists_cancelPushLoop(TwoLists_LockGuard(c0), 0)
    IN  [c |-> TwoLists_LockGuard(r.c), ret |-> r.ret]

TwoLists_cancelOnePop(c0) ==
    LET c == TwoLists_LockGuard(c0)
    IN  IF c.m_pendingPop = <<>> THEN [c |-> TwoLists_LockGuard(c), ret |-> 0]
        ELSE [c |-> TwoLists_LockGuard(
                        TwoLists_doPendingPop(c, NoValue, OPERATION_CANCELLED)),
              ret |-> 1]

RECURSIVE TwoLists_cancelPopLoop(_, _)
\* while (cancelOnePop()) ++n;
TwoLists_cancelPopLoop(c, n) ==
    LET r == TwoLists_cancelOnePop(c)
    IN  IF r.ret = 0 THEN [c |-> r.c, ret |-> n] ELSE TwoLists_cancelPopLoop(r.c, n + 1)

TwoLists_cancelPop(c0) ==
    LET r == TwoLists_cancelPopLoop(TwoLists_LockGuard(c0), 0)
    IN  [c |-> TwoLists_LockGuard(r.c), ret |-> r.ret]

\* The parked pushes are cancelled first, then the parked pops.
TwoLists_cancel(c0) ==
    LET pu == TwoLists_cancelPush(TwoLists_LockGuard(c0))
        po == TwoLists_cancelPop(pu.c)
    IN  [c |-> TwoLists_LockGuard(po.c), ret |-> pu.ret + po.ret]

\* reset(): under its own LockGuard, m_queue = container_type{}, then
\* cancel(), which takes the recursive mutex again with a LockGuard of its own.
TwoLists_reset(c0) ==
    LET c == TwoLists_LockGuard(c0)
        r == TwoLists_cancel([c EXCEPT !.m_queue = <<>>])
    IN  [c |-> TwoLists_LockGuard(r.c), ret |-> r.ret]

TwoLists_CancelCall(f, c) ==
    CASE f = "cancel" -> TwoLists_cancel(c)
      [] f = "cancelPush" -> TwoLists_cancelPush(c)
      [] f = "cancelPop" -> TwoLists_cancelPop(c)
      [] f = "cancelOnePush" -> TwoLists_cancelOnePush(c)
      [] OTHER -> TwoLists_cancelOnePop(c)

\* The members of object 1 and the history after an operation that left c.
TwoLists_Store(c) ==
    /\ m_limit' = [m_limit EXCEPT ![1] = c.m_limit]
    /\ m_queue' = [m_queue EXCEPT ![1] = c.m_queue]
    /\ m_pendingPush' = c.m_pendingPush
    /\ m_pendingPop' = c.m_pendingPop
    /\ completions' = [h \in DOMAIN completions |->
                         completions[h] \o CompletionsOf(c.posted, h)]
    /\ failed' = failed \cup c.failed
    /\ UNCHANGED <<lifetime, m_pendingOps, m_pendingOpsIsPushers, m_closeState, budget,
                   parkedEver, accepted, delivered, discarded, outstandingWork, inFlight,
                   m_mutex, moving>>

TwoLists_AsyncPush ==
    /\ nextId <= budget
    /\ TwoLists_Store(TwoLists_initPush(TwoLists_Self, nextId, nextId))
    /\ nextId' = nextId + 1

TwoLists_AsyncPop ==
    /\ nextId <= budget
    /\ TwoLists_Store(TwoLists_initPop(TwoLists_Self, nextId))
    /\ nextId' = nextId + 1

TwoLists_Cancel(f) ==
    /\ TwoLists_Store(TwoLists_CancelCall(f, TwoLists_Self).c)
    /\ UNCHANGED nextId

TwoLists_Reset ==
    /\ TwoLists_Store(TwoLists_reset(TwoLists_Self).c)
    /\ UNCHANGED nextId

NextTwoLists ==
    \/ TwoLists_AsyncPush
    \/ TwoLists_AsyncPop
    \/ \E f \in CancelOps : TwoLists_Cancel(f)
    \/ TwoLists_Reset

InitTwoLists == InitOf(MaxOpsTwoLists, 0..MaxLimit)

\* One two-list queue, MaxOpsTwoLists pushes and pops, cancels and resets.
SpecTwoLists == InitTwoLists /\ [][NextTwoLists]_vars

\* ------------------------------------------------------------------------
\* The moves member by member, in a thread of their own, while the other
\* threads call the operations: each operation holds its LockGuard from its
\* first statement to its last and is one step, taken when the mutex of its
\* object is free.

\* A thread that does not take the mutex.
lockNot(mutex, q) == mutex

\* std::lock_guard / std::unique_lock on m_mutex of q, taken by the moving
\* thread; the step that takes it waits until the mutex is free.
lock(mutex, q) == [mutex EXCEPT ![q] = 1]

unlock(mutex, q) == [mutex EXCEPT ![q] = 0]

\* No move is under way.
Idle == [pc |-> "idle", kind |-> "none", this |-> 1, other |-> 1, before |-> <<>>]

\* What a step of a move keeps.
MoveKeeps == UNCHANGED <<budget, nextId, discarded>>

\* The members of c.
MembersOf(c) ==
    [ m_limit |-> c.m_limit, m_queue |-> c.m_queue, m_pendingOps |-> c.m_pendingOps,
      m_pendingOpsIsPushers |-> c.m_pendingOpsIsPushers, m_closeState |-> c.m_closeState ]

\* The members of d and of s are written, and what the step has posted and
\* asserted is recorded.
StoreBoth(d, cd, s, cs, posted, fails, work) ==
    /\ Members2(d, cd, s, cs)
    /\ completions' = [h \in DOMAIN completions |->
                         completions[h] \o CompletionsOf(posted, h)]
    /\ accepted' = accepted /\ delivered' = delivered
    /\ parkedEver' = parkedEver \cup AllParkedIds'
    /\ failed' = failed \cup fails
    /\ outstandingWork' = outstandingWork + work
    /\ inFlight' = inFlight + Len(posted)
    /\ UNCHANGED <<m_pendingPush, m_pendingPop>>

\* operator=: std::lock(lkThis, lkOther), then other.checkInvariant().
MoveAssignLock(d, s) ==
    /\ moving.pc = "idle" /\ alive(d) /\ alive(s) /\ d # s
    /\ m_mutex[d] = 0 /\ m_mutex[s] = 0
    /\ m_mutex' = lock(lock(m_mutex, d), s)
    /\ moving' = [pc |-> "locked", kind |-> "assign", this |-> d, other |-> s,
                  before |-> <<Self(d), Self(s)>>]
    /\ StoreBoth(d, Self(d), s, Self(s), <<>>, checkInvariant(Self(s)).failed, 0)
    /\ UNCHANGED lifetime /\ MoveKeeps

\* operator=: reset() of *this.
MoveAssignReset ==
    /\ moving.pc = "locked" /\ moving.kind = "assign"
    /\ LET d == moving.this
           s == moving.other
           t1 == reset(Self(d))
           t2 == assert(t1, "FunctionQueue_clear", t1.m_pendingOps = <<>>)
       IN  /\ StoreBoth(d, t2, s, Self(s), t2.posted, t2.failed, t2.work)
           /\ discarded' = discarded \cup Elems(m_queue[d])
    /\ moving' = [moving EXCEPT !.pc = "reset"]
    /\ UNCHANGED <<lifetime, m_mutex, budget, nextId>>

\* operator= or the private constructor: m_limit{ other.m_limit } and
\* m_queue{ std::move(other.m_queue) }.
MoveQueue ==
    /\ \/ moving.pc = "reset" /\ moving.kind = "assign"
       \/ moving.pc = "locked" /\ moving.kind = "construct"
    /\ LET d == moving.this
           s == moving.other
       IN  StoreBoth(d, [Self(d) EXCEPT !.m_limit = m_limit[s], !.m_queue = m_queue[s]],
                     s, [Self(s) EXCEPT !.m_queue = <<>>], <<>>, {}, 0)
    /\ moving' = [moving EXCEPT !.pc = "queue"]
    /\ UNCHANGED <<lifetime, m_mutex>> /\ MoveKeeps

\* operator= or the private constructor: m_pendingOps, m_pendingOpsIsPushers
\* and m_closeState; operator= ends the transfer with checkInvariant().
MovePendingOps ==
    /\ moving.pc = "queue"
    /\ LET d == moving.this
           s == moving.other
           t == [Self(d) EXCEPT !.m_pendingOps = m_pendingOps[s],
                                !.m_pendingOpsIsPushers = m_pendingOpsIsPushers[s],
                                !.m_closeState = m_closeState[s]]
       IN  StoreBoth(d, t, s, [Self(s) EXCEPT !.m_pendingOps = <<>>], <<>>,
                     IF moving.kind = "assign" THEN checkInvariant(t).failed ELSE {}, 0)
    /\ moving' = [moving EXCEPT !.pc = "taken"]
    /\ UNCHANGED <<lifetime, m_mutex>> /\ MoveKeeps

\* operator=: other.reset().
MoveAssignResetOther ==
    /\ moving.pc = "taken" /\ moving.kind = "assign"
    /\ LET d == moving.this
           s == moving.other
           o == reset(Self(s))
       IN  StoreBoth(d, Self(d), s, o, o.posted, o.failed, o.work)
    /\ moving' = [moving EXCEPT !.pc = "cleared"]
    /\ UNCHANGED <<lifetime, m_mutex>> /\ MoveKeeps

\* operator= returns: lkOther and lkThis are destroyed.
MoveAssignUnlock ==
    /\ moving.pc = "cleared" /\ moving.kind = "assign"
    /\ m_mutex' = unlock(unlock(m_mutex, moving.this), moving.other)
    /\ moving' = Idle
    /\ StoreBoth(moving.this, Self(moving.this), moving.other, Self(moving.other), <<>>, {}, 0)
    /\ UNCHANGED lifetime /\ MoveKeeps

\* Queue(Queue&& other): the temporary LockGuard{ other } is constructed
\* before the private constructor is entered.
MoveConstructLock(d, s) ==
    /\ moving.pc = "idle" /\ lifetime[d] = "none" /\ alive(s)
    /\ m_mutex[s] = 0
    /\ m_mutex' = lock(m_mutex, s)
    /\ moving' = [pc |-> "locked", kind |-> "construct", this |-> d, other |-> s,
                  before |-> <<Self(d), Self(s)>>]
    /\ StoreBoth(d, Self(d), s, Self(s), <<>>, LockGuard(Self(s)).failed, 0)
    /\ UNCHANGED lifetime /\ MoveKeeps

\* Queue(Queue&& other): the private constructor has returned, the temporary
\* LockGuard is destroyed at the end of the full expression, and the new
\* object exists.
MoveConstructUnlock ==
    /\ moving.pc = "taken" /\ moving.kind = "construct"
    /\ m_mutex' = unlock(m_mutex, moving.other)
    /\ moving' = Idle
    /\ StoreBoth(moving.this, Self(moving.this), moving.other, Self(moving.other), <<>>,
                 LockGuard(Self(moving.other)).failed, 0)
    /\ lifetime' = [lifetime EXCEPT ![moving.this] = "alive"]
    /\ MoveKeeps

\* The steps of the moving thread.
MoveStep ==
    \/ \E d, s \in Queues : MoveAssignLock(d, s)
    \/ MoveAssignReset
    \/ MoveQueue
    \/ MovePendingOps
    \/ MoveAssignResetOther
    \/ MoveAssignUnlock
    \/ \E d, s \in Queues : MoveConstructLock(d, s)
    \/ MoveConstructUnlock

\* An operation of another thread on q: its LockGuard takes the mutex, which
\* is free, and has given it back when the operation returns.
Concurrent ==
    \E q \in Queues :
        /\ m_mutex[q] = 0
        /\ \/ AsyncPush(q)
           \/ AsyncPop(q)
           \/ \E ok \in BOOLEAN : TryPush(q, ok)
           \/ \E ok \in BOOLEAN : TryPop(q, ok)
           \/ \E f \in CancelOps : Cancel(q, f)

NextMoves == MoveStep \/ Concurrent

InitMoves == InitOf(MaxOpsMoves, LimitsLife)

\* Two objects, one thread that moves them and threads that call asyncPush,
\* asyncPop, the try and the cancel operations meanwhile.
SpecMoves == InitMoves /\ [][NextMoves]_vars

\* ------------------------------------------------------------------------
\* None of the named assertions has failed so far.
NoneFailed(names) == failed \cap names = {}

Size(q) == Len(m_queue[q])

\* C1: between operations, and at every acquisition and release of the lock
\* inside them (the first assertion of checkInvariant), every queue object
\* holds at most limit elements, whatever the limit and whatever asyncPush,
\* asyncPop, tryPush, tryPop, the cancel operations, close, reset and moves
\* have run.
C1_SizeWithinLimit ==
    /\ NoneFailed({"checkInvariant1"})
    /\ \A q \in Queues : alive(q) => 0 <= Size(q) /\ Size(q) <= m_limit[q]

\* Object 2 has taken, by a move, a full buffer and the push parked on it.
C1_Witness ==
    /\ alive(2) /\ m_limit[2] > 0 /\ Size(2) = m_limit[2]
    /\ Elems(m_queue[2]) \subseteq accepted[1]
    /\ hasPendingPush(Self(2))

\* C2: at every acquisition and release of the lock (the second and third
\* assertion of checkInvariant, nested acquisitions included) and between
\* operations: a push is parked only on a full buffer and a pop only on an
\* empty one.
C2_ParkedOnlyWhenBlocked ==
    /\ NoneFailed({"checkInvariant2", "checkInvariant3"})
    /\ \A q \in Queues :
           alive(q) =>
               /\ Size(q) < m_limit[q] => ~hasPendingPush(Self(q))
               /\ Size(q) > 0 => ~hasPendingPop(Self(q))

\* There is room again after a parked push was cancelled, and a pop is parked.
C2_Witness ==
    /\ Size(1) < m_limit[1]
    /\ hasPendingPop(Self(1))
    /\ \E h \in parkedEver : completions[h] = <<OPERATION_CANCELLED>>
    /\ accepted[1] # {}

\* C3: whenever the close state is not ok the pending-op list is empty, at
\* every acquisition and release of the lock (the fourth assertion of
\* checkInvariant) and between operations.
C3_ClosedHoldsNoWaiters ==
    /\ NoneFailed({"checkInvariant4"})
    /\ \A q \in Queues : alive(q) /\ m_closeState[q] # OK => m_pendingOps[q] = <<>>

\* A closed queue: close has drained a parked operation, and an operation
\* initiated after it was not parked.
C3_Witness ==
    /\ m_closeState[1] # OK
    /\ \E h \in parkedEver : completions[h] = <<m_closeState[1]>>
    /\ \E h \in 1..(nextId - 1) : h \notin parkedEver /\ completions[h] = <<m_closeState[1]>>

\* C4: the pending-op list never holds pushes and pops together: the
\* assertions of deferPush, deferPop, doPendingPush and doPendingPop hold, and
\* the flag names the kind of every entry of a non-empty list.
C4_ListHomogeneous ==
    /\ NoneFailed({"deferPush", "deferPop", "doPendingPush", "doPendingPop"})
    /\ \A q \in Queues :
           alive(q) =>
               \A i \in DOMAIN m_pendingOps[q] :
                   m_pendingOps[q][i].kind = IF m_pendingOpsIsPushers[q] THEN "push" ELSE "pop"

\* On a rendezvous queue the list has changed its role: a parked pop was
\* served by a push, and now a push is parked.
C4_Witness ==
    /\ m_limit[1] = 0
    /\ hasPendingPush(Self(1))
    /\ \E p \in parkedEver : \E v \in accepted[1] : <<p, v>> \in delivered[1]

\* The error codes out carries for handler h.
CodesFor(out, h) == {out[i].ec : i \in {j \in DOMAIN out : out[j].id = h}}

\* What each operation other than close, called now on q, would post.
PostedByOthers(q) ==
    {initPush(Self(q), nextId, nextId).posted, initPop(Self(q), nextId).posted,
     tryPush(Self(q), nextId).c.posted, tryPop(Self(q), nextId).c.posted,
     reset(Self(q)).posted, moveConstruct(Self(q)).other.posted}
    \cup {CancelCall(f, Self(q)).c.posted : f \in CancelOps}
    \cup {moveAssign(Self(q), Self(s)).other.posted : s \in {x \in Queues : alive(x) /\ x # q}}
    \cup {moveAssign(Self(d), Self(q)).other.posted : d \in {x \in Queues : alive(x) /\ x # q}}

\* Every operation that has been parked and is parked no more has exactly one
\* completion, and one that is still parked has none.
ExactlyOnce ==
    \A h \in parkedEver :
        IF h \in AllParkedIds THEN completions[h] = <<>> ELSE Len(completions[h]) = 1

\* C5 (as amended): every parked operation gets exactly one completion, none
\* is left without one by destruction or a move, and the code is ok or
\* operation-cancelled, or, when a close(ec) drains it, the ec of that call;
\* the queue never puts queue-empty into a completion.
C5_OneCompletionPerParkedOp ==
    /\ ExactlyOnce
    /\ \A h \in parkedEver : \A i \in DOMAIN completions[h] : completions[h][i] # QUEUE_EMPTY
    /\ \A q \in Queues :
           alive(q) =>
               \A h \in ParkedIds(m_pendingOps[q]) :
                   /\ \A out \in PostedByOthers(q) :
                          CodesFor(out, h) \subseteq {OK, OPERATION_CANCELLED}
                   /\ \A ec \in CloseArgs \ {OK} : CodesFor(close(Self(q), ec).posted, h) = {ec}

\* An object has been destroyed, and a parked operation was completed by a
\* close() with a code of the caller's.
C5_Witness ==
    /\ \E q \in Queues : lifetime[q] = "ended"
    /\ \E h \in parkedEver : completions[h] = <<OTHER_ERROR>>
    /\ \E h \in parkedEver : completions[h] = <<OPERATION_CANCELLED>>

\* C5 as stated: exactly one completion, with ok, operation-cancelled or
\* queue-closed.
C5_AsStated ==
    /\ ExactlyOnce
    /\ \A h \in parkedEver :
           \A i \in DOMAIN completions[h] :
               completions[h][i] \in {OK, OPERATION_CANCELLED, QUEUE_CLOSED}

AllAccepted == UNION {accepted[q] : q \in Queues}

AllDelivered == UNION {delivered[q] : q \in Queues}

\* The places of the buffers: <<queue, index>>.
BufferPlaces == UNION {{<<q, i>> : i \in DOMAIN m_queue[q]} : q \in Queues}

\* The number of places v is in: buffers, successful pops, the discarded.
Places(v) ==
    Cardinality({p \in BufferPlaces : m_queue[p[1]][p[2]] = v})
    + Cardinality({d \in AllDelivered : d[2] = v})
    + (IF v \in discarded THEN 1 ELSE 0)

\* C6: every value accepted (push completed with ok, or tryPush true) is in
\* exactly one place: in a buffer, delivered to one successful pop, or
\* discarded by reset, move-assignment or destruction; and what pops deliver
\* and buffers hold was accepted.
C6_ContentConservation ==
    /\ \A v \in AllAccepted : Places(v) = 1
    /\ \A d \in AllDelivered : d[2] \in AllAccepted
    /\ \A q \in Queues : Elems(m_queue[q]) \subseteq AllAccepted
    /\ discarded \subseteq AllAccepted

\* One value was discarded by a move-assignment that brought the other value
\* from object 1 to object 2.
C6_Witness ==
    /\ discarded # {}
    /\ alive(1) /\ alive(2)
    /\ m_queue[2] # <<>> /\ Elems(m_queue[2]) \subseteq accepted[1]

Ids(list) == [i \in DOMAIN list |-> list[i].id]

IsSuffix(t, s) == Len(t) <= Len(s) /\ t = SubSeq(s, Len(s) - Len(t) + 1, Len(s))

Ascending(ids) == \A i, j \in DOMAIN ids : i < j => ids[i] < ids[j]

\* What cancel, reset and close, called now on q, would post.
PostedByDraining(q) ==
    {cancel(Self(q)).c.posted, reset(Self(q)).posted}
    \cup {close(Self(q), ec).posted : ec \in CloseArgs \ {OK}}

\* C7: in every step the list of a queue is left alone, gets the new
\* operation at its back, or loses operations from its front, which are then
\* completed in that step, the others keeping their order; the list is in the
\* order of initiation, so the front is the oldest; and cancel, reset and
\* close post the completions oldest first.
C7_FifoWithinRole ==
    [][\A q \in Queues :
           LET old == Ids(m_pendingOps[q])
               new == Ids(m_pendingOps'[q])
           IN  /\ Ascending(old) /\ Ascending(new)
               /\ \/ new = old
                  \/ new = Append(old, nextId)
                  \/ /\ IsSuffix(new, old)
                     /\ \A i \in 1..(Len(old) - Len(new)) :
                            Len(completions'[old[i]]) = Len(completions[old[i]]) + 1
               /\ \A out \in PostedByDraining(q) : Ids(out) = old]_vars

\* The older of two parked operations was served by a counterpart, the
\* younger is still parked.
C7_Witness ==
    \E h1, h2 \in parkedEver :
        /\ h1 < h2
        /\ completions[h1] = <<OK>>
        /\ h2 \in ParkedIds(m_pendingOps[1])

\* The place of x in S, counting from the smallest.
Rank(x, S) == Cardinality({y \in S : y <= x})

PopIds(q) == {d[1] : d \in delivered[q]}

\* The elements of the buffer of q followed by those of the parked pushes.
Waiting(q) ==
    m_queue[q] \o [i \in DOMAIN m_pendingOps[q] |->
                      IF m_pendingOps[q][i].kind = "push" THEN m_pendingOps[q][i].val ELSE 0]

\* Operation numbers grow in the order the initiators took the lock: the
\* k-th successful pop on q has received the value of the k-th successful
\* push on q, and the elements in the buffer and of the parked pushes wait in
\* the order of their pushes, behind everything delivered.
InOrder(q) ==
    /\ \A d \in delivered[q] :
           d[2] \in accepted[q] /\ Rank(d[1], PopIds(q)) = Rank(d[2], accepted[q])
    /\ hasPendingPush(Self(q)) \/ m_queue[q] # <<>> =>
           /\ Ascending(Waiting(q))
           /\ \A d \in delivered[q] : d[2] < Waiting(q)[1]
    /\ Ascending(Ids(m_pendingOps[q]))

\* C8 (as amended): in a run without reset, move-assignment and
\* move-construction, the k-th successful pop receives the value of the k-th
\* successful push, and no later push or pop overtakes a parked one.
C8_ElementsLeaveInOrder == lifetime[2] = "none" => InOrder(1)

\* Two pushes have succeeded, the second after being parked, and a pop has
\* received the value of the first.
C8_Witness ==
    /\ lifetime[2] = "none"
    /\ Cardinality(accepted[1]) = 2
    /\ accepted[1] \cap parkedEver # {}
    /\ delivered[1] # {}

\* C8 as stated: the same for every object of a run that has no reset and no
\* move-assignment.
C8_AsStated == \A q \in Queues : InOrder(q)

\* The completion record of a push and of a pop.
PushCompletion(h, ec) == [id |-> h, kind |-> "push", ec |-> ec, val |-> NoValue]

PopCompletion(h, ec, val) == [id |-> h, kind |-> "pop", ec |-> ec, val |-> val]

\* C9: while the close state of q is ec # ok (after the latest close(ec),
\* until reset), an asyncPush initiated now completes with ec, leaves the
\* buffer as it is and is not parked; an asyncPop initiated now completes
\* with ok and the front element if the buffer is non-empty, else with ec
\* and the value its factory builds for ec, and is not parked.
C9_ClosedQueueFailsFast ==
    \A q \in Queues :
        alive(q) /\ m_closeState[q] # OK =>
            LET ec   == m_closeState[q]
                h    == nextId
                push == initPush(Self(q), h, h)
                pop  == initPop(Self(q), h)
            IN  /\ push.posted = <<PushCompletion(h, ec)>>
                /\ push.m_queue = m_queue[q]
                /\ push.m_pendingOps = <<>>
                /\ push.m_closeState = ec
                /\ pop.m_pendingOps = <<>>
                /\ pop.m_closeState = ec
                /\ IF m_queue[q] # <<>>
                   THEN /\ pop.posted = <<PopCompletion(h, OK, Head(m_queue[q]))>>
                        /\ pop.m_queue = Tail(m_queue[q])
                   ELSE /\ pop.posted = <<PopCompletion(h, ec, defValueFactory(h, ec))>>
                        /\ pop.m_queue = <<>>

\* On a closed queue that still holds an element, an operation initiated
\* after close has completed with the close state without being parked.
C9_Witness ==
    /\ m_closeState[1] # OK
    /\ m_queue[1] # <<>>
    /\ \E h \in 1..(nextId - 1) : h \notin parkedEver /\ completions[h] = <<m_closeState[1]>>

\* C10: close(ec) with ec # ok, called now, sets the close state to ec,
\* completes every parked operation with ec, oldest first (a push without
\* inserting, a pop with the value its factory builds for ec), and leaves the
\* list empty and the buffer as it was.
C10_CloseDrainsWithItsCode ==
    \A q \in Queues :
        alive(q) =>
            \A ec \in CloseArgs \ {OK} :
                LET r == close(Self(q), ec)
                    parked == m_pendingOps[q]
                IN  /\ r.m_closeState = ec
                    /\ r.m_pendingOps = <<>>
                    /\ r.m_queue = m_queue[q]
                    /\ r.posted = [i \in DOMAIN parked |->
                                      IF parked[i].kind = "push"
                                      THEN PushCompletion(parked[i].id, ec)
                                      ELSE PopCompletion(parked[i].id, ec,
                                                         defValueFactory(parked[i].id, ec))]

\* close has completed a parked push with its code, and the buffer the push
\* was waiting on is still full.
C10_Witness ==
    /\ m_closeState[1] # OK
    /\ m_limit[1] > 0 /\ Size(1) = m_limit[1]
    /\ \E h \in parkedEver : completions[h] = <<m_closeState[1]>>

\* C11 as stated: close(ok), called now, returns false, leaves buffer, list,
\* flag and close state as they are and posts no completion.
C11_AsStated ==
    \A q \in Queues :
        alive(q) =>
            /\ closeReturns(Self(q), OK) = {FALSE}
            /\ close(Self(q), OK) = Self(q)

\* The members of c an operation can tell apart: the flag of an empty list is
\* read by nothing.
Observable(c) ==
    [c EXCEPT !.m_pendingOpsIsPushers = @ /\ c.m_pendingOps # <<>>, !.failed = {},
              !.events = <<>>]

\* What a caller and the executor see of one operation on c: what is posted,
\* what is returned, and the queue it leaves.
Outcomes(c, h) ==
    <<Observable(initPush(c, h, h)), Observable(initPop(c, h)),
      [tryPush(c, h) EXCEPT !.c = Observable(@)],
      [tryPop(c, h) EXCEPT !.c = Observable(@)],
      [f \in CancelOps |-> [CancelCall(f, c) EXCEPT !.c = Observable(@)]],
      Observable(reset(c)),
      [ec \in CloseArgs |-> Observable(close(c, ec))]>>

\* C12: reset, called now, leaves the buffer empty, nothing parked and the
\* close state open, like Queue(ex, limit); and on a queue with nothing
\* parked every operation has the outcome it has on that queue with the flag
\* as the constructor sets it, so what follows a reset is what follows
\* construction.
C12_ResetGivesFreshQueue ==
    \A q \in Queues :
        alive(q) =>
            /\ Observable([reset(Self(q)) EXCEPT !.posted = <<>>]) = Fresh(m_limit[q])
            /\ m_pendingOps[q] = <<>> =>
                   Outcomes(Self(q), nextId)
                       = Outcomes([Self(q) EXCEPT !.m_pendingOpsIsPushers = FALSE], nextId)

\* After a reset that cancelled a parked push and dropped an element, the
\* flag still says pushers, and a push has been accepted since.
C12_Witness ==
    /\ m_pendingOpsIsPushers[1] /\ m_pendingOps[1] = <<>>
    /\ discarded # {}
    /\ \E h \in parkedEver : completions[h] = <<OPERATION_CANCELLED>>
    /\ m_queue[1] # <<>>

\* C13: the count of cancelPush() plus the count of a cancelPop() after it
\* is the count cancel() returns from the same state, and one of the two is 0.
C13_CancelCountsAddUp ==
    \A q \in Queues :
        alive(q) =>
            LET a == cancelPush(Self(q))
                b == cancelPop([a.c EXCEPT !.posted = <<>>])
            IN  /\ a.ret + b.ret = cancel(Self(q)).ret
                /\ a.ret = 0 \/ b.ret = 0

\* Two pops are parked: cancelPush counts 0 and cancelPop 2.
C13_Witness ==
    /\ hasPendingPop(Self(1))
    /\ Len(m_pendingOps[1]) = 2
    /\ cancelPop(Self(1)).ret = 2

\* The completion a parked operation e gets when it is fired with ec # ok.
FailedWith(e, ec) ==
    IF e.kind = "push" THEN PushCompletion(e.id, ec)
    ELSE PopCompletion(e.id, ec, defValueFactory(e.id, ec))

\* C14: cancel(), called now, returns the number of parked operations, posts
\* for each of them one completion with operation-cancelled, inserts no
\* element, leaves buffer, limit and close state as they are, the list empty
\* and every assertion on the way true.
C14_CancelCompletesAllParked ==
    \A q \in Queues :
        alive(q) =>
            LET r == cancel(Self(q))
                parked == m_pendingOps[q]
            IN  /\ r.ret = Len(parked)
                /\ r.c.posted = [i \in DOMAIN parked |-> FailedWith(parked[i], OPERATION_CANCELLED)]
                /\ r.c.m_queue = m_queue[q]
                /\ r.c.m_limit = m_limit[q]
                /\ r.c.m_closeState = m_closeState[q]
                /\ r.c.m_pendingOps = <<>>
                /\ r.c.failed = {}

\* Two pushes are parked on a full buffer: cancel counts 2.
C14_Witness ==
    /\ hasPendingPush(Self(1))
    /\ m_queue[1] # <<>>
    /\ cancel(Self(1)).ret = 2

\* C15: tryPush(v), called now, returns true exactly when the queue is open
\* and size < limit or (limit = 0 and a pop is parked); when it returns false
\* nothing has changed and nothing is posted, when it returns true v is the
\* newest element of the buffer or was handed to the parked pop.
C15_TryPushIffReadyAndOpen ==
    \A q \in Queues :
        alive(q) =>
            LET v == nextId
                r == tryPush(Self(q), v)
            IN  /\ r.ret <=> /\ m_closeState[q] = OK
                             /\ \/ Size(q) < m_limit[q]
                                \/ m_limit[q] = 0 /\ hasPendingPop(Self(q))
                /\ ~r.ret => r.c = Self(q)
                /\ r.ret =>
                       IF hasPendingPop(Self(q))
                       THEN r.c.posted = <<PopCompletion(m_pendingOps[q][1].id, OK, v)>>
                       ELSE r.c.m_queue = Append(m_queue[q], v) /\ r.c.posted = <<>>

\* The queue is closed with room in its buffer, and a tryPush has succeeded
\* before.
C15_Witness ==
    /\ m_closeState[1] # OK
    /\ Size(1) < m_limit[1]
    /\ \E v \in accepted[1] : completions[v] = <<>>

\* The element that has waited longest: the front of the buffer, or, on an
\* empty buffer, that of the first parked push.
Oldest(q) == IF m_queue[q] # <<>> THEN Head(m_queue[q]) ELSE m_pendingOps[q][1].val

\* C16: tryPop, called now, succeeds with the oldest element exactly when the
\* buffer is non-empty or a push is parked, whatever the close state; else it
\* reports failure, returns what its factory builds for queue-empty, and
\* nothing has changed.
C16_TryPopIffSomethingToTake ==
    \A q \in Queues :
        alive(q) =>
            LET h == nextId
                r == tryPop(Self(q), h)
            IN  /\ r.ret <=> m_queue[q] # <<>> \/ hasPendingPush(Self(q))
                /\ r.ret => r.val = Oldest(q)
                /\ ~r.ret => r.val = defValueFactory(h, QUEUE_EMPTY) /\ r.c = Self(q)

\* The queue is closed, a tryPop has taken an element and another is left.
C16_Witness ==
    /\ m_closeState[1] # OK
    /\ m_queue[1] # <<>>
    /\ \E d \in delivered[1] : completions[d[1]] = <<>>

\* The outcomes of tryPush and of tryPop called now on q.
TryOutcomes(q) == {tryPush(Self(q), nextId).c, tryPop(Self(q), nextId).c}

\* C17 (as amended): tryPush and tryPop add no entry to the list, call no
\* handler themselves and have no completion of their own; when they serve
\* the oldest parked operation its completion, with ok, is posted.
C17_TryNeverParksNorCalls ==
    \A q \in Queues :
        alive(q) =>
            \A c \in TryOutcomes(q) :
                LET old == m_pendingOps[q]
                IN  /\ IsSuffix(c.m_pendingOps, old)
                    /\ c.invoked = <<>>
                    /\ Len(c.posted) = Len(old) - Len(c.m_pendingOps)
                    /\ Len(c.posted) <= 1
                    /\ \A i \in DOMAIN c.posted :
                           c.posted[i].id = old[1].id /\ c.posted[i].ec = OK

\* A tryPush has served a parked pop: the pop has its completion, the push
\* has none.
C17_Witness ==
    \E d \in delivered[1] :
        /\ d[1] \in parkedEver
        /\ completions[d[1]] = <<OK>>
        /\ d[2] \in accepted[1] /\ completions[d[2]] = <<>>

\* C17 as stated: tryPush and tryPop add no entry to the list and cause no
\* handler to be invoked.
C17_AsStated ==
    \A q \in Queues :
        alive(q) =>
            \A c \in TryOutcomes(q) :
                /\ Len(c.m_pendingOps) <= Len(m_pendingOps[q])
                /\ c.invoked = <<>>
                /\ c.posted = <<>>

\* What q and its partner look like when the lock is released, for every
\* operation that can be called on q now.
AfterAnyCall(q) ==
    LET c == Self(q)
        h == nextId
        moved == moveConstruct(c)
    IN  {initPush(c, h, h), initPop(c, h), tryPush(c, h).c, tryPop(c, h).c, reset(c),
         moved.this, moved.other}
          \cup {CancelCall(f, c).c : f \in CancelOps}
          \cup {close(c, ec) : ec \in CloseArgs}
          \cup {moveAssign(Self(d), c).this : d \in {d \in Queues : alive(d) /\ d # q}}
          \cup {moveAssign(Self(d), c).other : d \in {d \in Queues : alive(d) /\ d # q}}

\* C18: no operation calls a handler itself: whatever is called now, the
\* handlers it completes are only posted, and the object it leaves at the
\* release of the lock, which is what a handler running later and calling
\* into the queue finds, passes checkInvariant().
C18_HandlersOnlyPosted ==
    \A q \in Queues :
        alive(q) =>
            /\ checkInvariant(Self(q)).failed = {}
            /\ \A c \in AfterAnyCall(q) :
                   /\ c.invoked = <<>>
                   /\ c.failed = {}
                   /\ checkInvariant(c).failed = {}

\* A push has completed at once and another is parked: the next call posts
\* an immediate completion, fires the parked one, cancels it or closes on it.
C18_Witness ==
    /\ m_pendingOps[1] # <<>>
    /\ \E h \in accepted[1] \ parkedEver : completions[h] = <<OK>>
    /\ initPop(Self(1), nextId).posted # <<>>
    /\ cancel(Self(1)).c.posted # <<>>

\* In one operation's posts, the ok completion of the push of an element
\* comes before the ok completion of the pop that takes that element.
PushBeforePop(posted) ==
    \A j \in DOMAIN posted :
        posted[j].kind = "pop" /\ posted[j].ec = OK =>
            \A i \in DOMAIN posted :
                posted[i] = PushCompletion(posted[j].val, OK) => i < j

\* C19: a completion happens when the operation in progress posts it to the
\* executor (completePush, completePop). Whatever is called now posts the
\* push completion of an element before the pop completion that carries it,
\* and once an async pop has completed with an element, no later step posts
\* a completion for the push of that element.
C19_PushCompletesBeforePop ==
    [][ /\ \A q \in Queues :
               alive(q) => \A c \in AfterAnyCall(q) : PushBeforePop(c.posted)
        /\ \A d \in AllDelivered :
               completions[d[1]] = <<OK>> => completions'[d[2]] = completions[d[2]] ]_vars

\* An async pop has fired a parked push and taken its element: both have
\* completed with ok, in the same operation.
C19_Witness ==
    \E d \in delivered[1] :
        /\ completions[d[1]] = <<OK>>
        /\ d[2] \in parkedEver
        /\ completions[d[2]] = <<OK>>

\* A queue that is empty, open and has nothing parked.
EmptyAndOpen(c) == c.m_queue = <<>> /\ c.m_pendingOps = <<>> /\ c.m_closeState = OK

\* C20 as stated: whatever queue is moved from now, by move-construction or
\* by move-assignment to another live queue, it is left with an empty
\* buffer, nothing parked and an open close state.
C20_AsStated ==
    \A s \in Queues :
        alive(s) =>
            /\ EmptyAndOpen(moveConstruct(Self(s)).other)
            /\ \A d \in Queues :
                   alive(d) /\ d # s => EmptyAndOpen(moveAssign(Self(d), Self(s)).other)

\* The completions of the operations parked in list, each cancelled, in order.
AllCancelled(list) == [i \in DOMAIN list |-> FailedWith(list[i], OPERATION_CANCELLED)]

\* C21: D = move(S), called now for any two live queues: what was parked in
\* D completes with operation-cancelled, D's buffer is gone, D has S's
\* limit, buffer, parked operations with their role and close state, and
\* what was parked in S is counted by D.cancel() while S.cancel() counts 0.
C21_MoveAssignTransfersAll ==
    \A s, d \in Queues :
        alive(s) /\ alive(d) /\ d # s =>
            LET r == moveAssign(Self(d), Self(s))
            IN  /\ r.this.posted = AllCancelled(m_pendingOps[d])
                /\ r.other.posted = r.this.posted
                /\ r.this.m_limit = m_limit[s]
                /\ r.this.m_queue = m_queue[s]
                /\ r.this.m_pendingOps = m_pendingOps[s]
                /\ hasPendingPush(r.this) = hasPendingPush(Self(s))
                /\ hasPendingPop(r.this) = hasPendingPop(Self(s))
                /\ r.this.m_closeState = m_closeState[s]
                /\ cancel([r.this EXCEPT !.posted = <<>>]).c.posted = AllCancelled(m_pendingOps[s])
                /\ cancel(r.this).ret = Len(m_pendingOps[s])
                /\ cancel(r.other).ret = 0
                /\ r.other.m_queue = <<>>
                /\ r.this.failed = {} /\ r.other.failed = {}

\* Both queues have an operation parked, of different roles, when the move
\* is made.
C21_Witness ==
    /\ alive(1) /\ alive(2)
    /\ hasPendingPush(Self(1)) /\ hasPendingPop(Self(2))
    /\ moveAssign(Self(2), Self(1)).this.posted # <<>>
    /\ hasPendingPush(moveAssign(Self(2), Self(1)).this)

\* C22: a queue destroyed now completes every operation parked in it with
\* operation-cancelled, once each and in order, and its list is empty when
\* ~FunctionQueue() runs clear(); and when no object is left alive, every
\* operation that was ever parked has had its one completion.
C22_DestructorCancelsParked ==
    /\ \A q \in Queues :
           alive(q) =>
               LET c == destructor(Self(q))
               IN  /\ c.posted = AllCancelled(m_pendingOps[q])
                   /\ c.m_pendingOps = <<>>
                   /\ c.failed = {}
    /\ (\A q \in Queues : ~alive(q)) => \A h \in parkedEver : Len(completions[h]) = 1

\* One object has been destroyed and the other is about to be, with two
\* operations parked that its destructor will cancel.
C22_Witness ==
    /\ lifetime[2] = "ended" /\ alive(1)
    /\ Len(m_pendingOps[1]) = 2
    /\ Len(destructor(Self(1)).posted) = 2

\* The number of operations parked, in all objects.
ParkedCount == Len(m_pendingOps[1]) + Len(m_pendingOps[2])

\* C23: the executor's outstanding work is one per parked operation and one
\* per posted handler that has not yet run: while an operation is parked
\* io_context::run() cannot return, even with no handler left to run, and
\* when nothing is parked and every posted handler has run no work is left
\* and it can.
C23_WorkKeptWhileParked ==
    /\ outstandingWork = ParkedCount + inFlight
    /\ ParkedCount > 0 => ~RunCanReturn
    /\ ParkedCount = 0 /\ inFlight = 0 => RunCanReturn

\* An operation is parked, another that was parked has completed, and the
\* executor has run every handler posted so far.
C23_Witness ==
    /\ ParkedCount > 0
    /\ inFlight = 0
    /\ \E h \in parkedEver : completions[h] # <<>>

\* The entries deferPush and deferPop put in the list.
PushEntry(h, val) == [id |-> h, kind |-> "push", val |-> val]
PopEntry(h) == [id |-> h, kind |-> "pop", val |-> NoValue]

\* C24: on an open queue with limit 0 the buffer is empty between
\* operations; an asyncPush called now parks unless a pop is parked, an
\* asyncPop called now parks unless a push is parked; a push that meets a
\* parked pop, or a pop that meets a parked push, completes both with ok,
\* the pop with that push's value, and leaves the buffer empty.
C24_RendezvousAtLimitZero ==
    \A q \in Queues :
        alive(q) /\ m_limit[q] = 0 =>
            /\ Size(q) = 0
            /\ m_closeState[q] = OK =>
                   LET c == Self(q)
                       h == nextId
                       old == m_pendingOps[q]
                       a == initPush(c, h, h)
                       b == initPop(c, h)
                   IN  /\ a.m_queue = <<>> /\ b.m_queue = <<>>
                       /\ a.failed = {} /\ b.failed = {}
                       /\ IF hasPendingPop(c)
                          THEN /\ a.m_pendingOps = Tail(old)
                               /\ a.posted = <<PushCompletion(h, OK),
                                               PopCompletion(old[1].id, OK, h)>>
                          ELSE /\ a.m_pendingOps = Append(old, PushEntry(h, h))
                               /\ a.posted = <<>>
                       /\ IF hasPendingPush(c)
                          THEN /\ b.m_pendingOps = Tail(old)
                               /\ b.posted = <<PushCompletion(old[1].id, OK),
                                               PopCompletion(h, OK, old[1].val)>>
                          ELSE /\ b.m_pendingOps = Append(old, PopEntry(h))
                               /\ b.posted = <<>>

\* A rendezvous channel on which a push has met a parked pop, and another
\* push is parked now.
C24_Witness ==
    /\ m_limit[1] = 0 /\ m_closeState[1] = OK
    /\ hasPendingPush(Self(1))
    /\ \E d \in delivered[1] : d[1] \in parkedEver /\ completions[d[2]] = <<OK>>

\* C25: an asyncPush called now on a queue with pops parked, whatever its
\* limit, is not parked: it completes with ok, the oldest parked pop
\* completes with ok and the pushed value, the other pops stay parked in
\* their order and the buffer is empty afterwards.
C25_PushPrefersParkedPop ==
    \A q \in Queues :
        alive(q) /\ hasPendingPop(Self(q)) /\ m_closeState[q] = OK =>
            LET h == nextId
                old == m_pendingOps[q]
                a == initPush(Self(q), h, h)
            IN  /\ h \notin ParkedIds(a.m_pendingOps)
                /\ a.posted = <<PushCompletion(h, OK), PopCompletion(old[1].id, OK, h)>>
                /\ a.m_pendingOps = Tail(old)
                /\ Len(a.m_pendingOps) = Len(old) - 1
                /\ a.m_queue = <<>>
                /\ a.failed = {}

\* Two pops are parked on a queue that has a buffer.
C25_Witness ==
    /\ m_limit[1] > 0 /\ m_closeState[1] = OK
    /\ hasPendingPop(Self(1))
    /\ Len(m_pendingOps[1]) = 2
    /\ hasPendingPop(initPush(Self(1), nextId, nextId))

\* The call returns 0 and has changed and posted nothing.
NoOp(r, c) == r.ret = 0 /\ r.c = c

\* C26: called now on a queue whose parked operations are pops, cancelPush
\* and cancelOnePush return 0, post nothing and leave list, buffer and close
\* state as they are; so do cancelPop and cancelOnePop when the parked
\* operations are pushes.
C26_CancelOfAbsentRoleIsNoOp ==
    \A q \in Queues :
        alive(q) =>
            LET c == Self(q)
            IN  /\ hasPendingPop(c) => NoOp(cancelPush(c), c) /\ NoOp(cancelOnePush(c), c)
                /\ hasPendingPush(c) => NoOp(cancelPop(c), c) /\ NoOp(cancelOnePop(c), c)

\* Pushes are parked: cancelOnePop finds nothing where cancelOnePush finds one.
C26_Witness ==
    /\ hasPendingPush(Self(1))
    /\ cancelOnePop(Self(1)).ret = 0
    /\ cancelOnePush(Self(1)).ret = 1

\* What q looks like after asyncPush, asyncPop, tryPush, tryPop or one of
\* the cancel operations called now.
AfterPushPopCancel(q) ==
    LET c == Self(q)
        h == nextId
    IN  {initPush(c, h, h), initPop(c, h), tryPush(c, h).c, tryPop(c, h).c}
          \cup {CancelCall(f, c).c : f \in CancelOps}

\* C27: close(ec) with ec # ok leaves closeState() = ec, and on a closed
\* queue closeState() and isOpen() return after asyncPush, asyncPop, tryPush,
\* tryPop and every cancel operation what they return now: the code the
\* queue was closed with, and false.
C27_CloseStateSticky ==
    \A q \in Queues :
        alive(q) =>
            /\ \A ec \in CloseArgs \ {OK} :
                   closeState(close(Self(q), ec)) = ec /\ ~isOpen(close(Self(q), ec))
            /\ ~isOpen(Self(q)) =>
                   \A c \in AfterPushPopCancel(q) :
                       closeState(c) = closeState(Self(q)) /\ ~isOpen(c)

\* The queue was closed with a code of the caller's, an operation initiated
\* after that has completed with it, and the queue still holds an element.
C27_Witness ==
    /\ closeState(Self(1)) = OTHER_ERROR
    /\ m_queue[1] # <<>>
    /\ \E h \in 1..(nextId - 1) : h \notin parkedEver /\ completions[h] = <<OTHER_ERROR>>

\* C28: an asyncPush or asyncPop called now that gets as far as parking and
\* finds no memory for the list node throws out of the initiator: nothing is
\* parked, no handler is posted or called, the executor's outstanding work
\* is what it was, and buffer, list, role flag and close state are exactly as
\* before the call; the calls that throw are those that would have parked.
C28_BadAllocLeavesQueueAsIs ==
    \A q \in Queues :
        alive(q) =>
            LET h == nextId
                asIs == [NoMemory(q) EXCEPT !.thrown = TRUE]
                a == initPush(NoMemory(q), h, h)
                b == initPop(NoMemory(q), h)
            IN  /\ a.thrown <=> h \in ParkedIds(initPush(Self(q), h, h).m_pendingOps)
                /\ b.thrown <=> h \in ParkedIds(initPop(Self(q), h).m_pendingOps)
                /\ a.thrown => a = asIs
                /\ b.thrown => b = asIs

\* The buffer is full, nothing is parked and the role flag says pops: the
\* asyncPush called now with no memory left throws.
C28_Witness ==
    /\ m_limit[1] > 0 /\ Size(1) = m_limit[1]
    /\ m_pendingOps[1] = <<>> /\ ~m_pendingOpsIsPushers[1]
    /\ initPush(NoMemory(1), nextId, nextId).thrown
    /\ ~initPop(NoMemory(1), nextId).thrown

\* C29 (as amended): at all times and for every limit, a push is parked only
\* when size = limit and a pop only when size = 0; with limit > 0, size =
\* limit leaves no pop parked and size = 0 leaves no push parked; with
\* limit = 0, where size = limit = 0 always, pushes or pops may be parked,
\* never both.
C29_ParkedRoleBySize ==
    /\ NoneFailed({"checkInvariant2", "checkInvariant3", "deferPush", "deferPop"})
    /\ \A q \in Queues :
           alive(q) =>
               /\ hasPendingPush(Self(q)) => Size(q) = m_limit[q]
               /\ hasPendingPop(Self(q)) => Size(q) = 0
               /\ ~(hasPendingPush(Self(q)) /\ hasPendingPop(Self(q)))
               /\ m_limit[q] > 0 =>
                      /\ Size(q) = m_limit[q] => ~hasPendingPop(Self(q))
                      /\ Size(q) = 0 => ~hasPendingPush(Self(q))

\* On a rendezvous channel a pop is parked, after a push was parked on it
\* and cancelled: both with size = limit = 0.
C29_Witness ==
    /\ m_limit[1] = 0 /\ Size(1) = 0
    /\ hasPendingPop(Self(1))
    /\ \E h \in parkedEver \ ParkedIds(m_pendingOps[1]) :
           completions[h] = <<OPERATION_CANCELLED>>

\* C29 as stated: for every limit, size = limit leaves no pop parked and
\* size = 0 leaves no push parked.
C29_AsStated ==
    \A q \in Queues :
        alive(q) =>
            /\ Size(q) = m_limit[q] => ~hasPendingPop(Self(q))
            /\ Size(q) = 0 => ~hasPendingPush(Self(q))

\* The elements the parked pushes of list hold.
ParkedVals(list) == {list[i].val : i \in {j \in DOMAIN list : list[j].kind = "push"}}

\* The elements c holds, in its buffer and in its parked pushes.
Held(c) == Elems(c.m_queue) \cup ParkedVals(c.m_pendingOps)

\* The values of the pop completions with ok in posted.
PoppedOk(posted) == {d[2] : d \in PopsOk(posted)}

\* The outcome of every operation on q alone called now, its destructor
\* included: what q looks like, and the element a tryPop has returned.
CallOrDestructor(q) ==
    LET c == Self(q)
        h == nextId
        t == tryPop(c, h)
    IN  {[c |-> x, taken |-> {}] :
             x \in {initPush(c, h, h), initPop(c, h), tryPush(c, h).c, reset(c), destructor(c)}
                     \cup {CancelCall(f, c).c : f \in CancelOps}
                     \cup {close(c, ec) : ec \in CloseArgs}}
          \cup {[c |-> t.c, taken |-> IF t.ret THEN {t.val} ELSE {}]}

\* C30: in what any operation called now posts, a pop completion with ok
\* carries an element the queue held (or the one pushed now) and holds no
\* more, a pop completion with ec # ok carries what that pop's own factory
\* builds for ec, which is no element; the element of a push completed with
\* ok is in the buffer or has gone to the pop (asyncPop or tryPop) that
\* fired it, and the element of a push completed with ec # ok is in neither.
C30_CompletionShapes ==
    \A q \in Queues :
        alive(q) =>
            \A o \in CallOrDestructor(q) :
                \A i \in DOMAIN o.c.posted :
                    LET r == o.c.posted[i]
                        before == Held(Self(q)) \cup {nextId}
                        inserted == Elems(o.c.m_queue) \cup PoppedOk(o.c.posted) \cup o.taken
                    IN  /\ r.kind = "pop" /\ r.ec = OK => r.val \in before \ Held(o.c)
                        /\ r.kind = "pop" /\ r.ec # OK =>
                               r.val = defValueFactory(r.id, r.ec) /\ r.val \notin before
                        /\ r.kind = "push" /\ r.ec = OK => r.id \in inserted
                        /\ r.kind = "push" /\ r.ec # OK => r.id \notin inserted

\* A pop has completed with an element and another pop is parked: cancelled
\* now, it gets what its factory builds for operation-cancelled.
C30_Witness ==
    /\ hasPendingPop(Self(1))
    /\ \E d \in delivered[1] : completions[d[1]] = <<OK>>
    /\ cancel(Self(1)).c.posted =
           <<PopCompletion(m_pendingOps[1][1].id, OPERATION_CANCELLED,
                           defValueFactory(m_pendingOps[1][1].id, OPERATION_CANCELLED))>>

\* Every operation of the run has had its one completion, with ok, every
\* handler posted has run, and the queue is empty with nothing parked.
AllDone ==
    /\ \A h \in DOMAIN completions : completions[h] = <<OK>>
    /\ inFlight = 0
    /\ m_queue[1] = <<>> /\ m_pendingOps[1] = <<>>
    /\ cancel(Self(1)).ret = 0

\* C31: in a run of n asyncPush and n asyncPop on an open queue, in any
\* interleaving and whatever the limit, with an executor that goes on running
\* the handlers posted: once the 2n operations have been initiated, every
\* one of the 2n handlers is in the end invoked with ok, and the buffer is
\* then empty, nothing is parked and cancel() returns 0, for good.
C31_NoLostWakeup == AllInitiated ~> []AllDone

\* All is done, and an operation of the run had been parked: it was woken.
C31_Witness == AllDone /\ parkedEver # {}

\* The six states of the state-machine table, for queue object q.
Open(q) == m_closeState[q] = OK
NothingParked(q) == m_pendingOps[q] = <<>>
Full(q) == Size(q) = m_limit[q]

IdleOpen(q) == Size(q) = 0 /\ NothingParked(q) /\ Open(q)

Buffered(q) == 0 < Size(q) /\ Size(q) < m_limit[q] /\ NothingParked(q) /\ Open(q)

FullOpen(q) == Full(q) /\ NothingParked(q) /\ Open(q)

PushWaiting(q) ==
    /\ hasPendingPush(Self(q)) /\ ParkedVals(m_pendingOps[q]) # {}
    /\ \A i \in DOMAIN m_pendingOps[q] : m_pendingOps[q][i].kind = "push"
    /\ Full(q) \/ (m_limit[q] = 0 /\ Size(q) = 0)
    /\ Open(q)

PopWaiting(q) ==
    /\ hasPendingPop(Self(q))
    /\ \A i \in DOMAIN m_pendingOps[q] : m_pendingOps[q][i].kind = "pop"
    /\ Size(q) = 0
    /\ Open(q)

Closed(q) == ~Open(q) /\ NothingParked(q) /\ Size(q) <= m_limit[q]

\* C32: between operations every queue object is in one of the six states
\* of the table: idle-open, buffered, full, push-waiting, pop-waiting, closed.
C32_OneOfSixStates ==
    \A q \in Queues :
        alive(q) =>
            \/ IdleOpen(q)
            \/ Buffered(q)
            \/ FullOpen(q)
            \/ PushWaiting(q)
            \/ PopWaiting(q)
            \/ Closed(q)

\* Object 2 has pushes waiting on a full buffer, taken by a move from
\* object 1, which is idle and open.
C32_Witness ==
    /\ alive(1) /\ alive(2)
    /\ PushWaiting(2) /\ Size(2) > 0
    /\ IdleOpen(1)

\* The role of the pending-op list of q: the kind of operation it parks.
Role(q) == IF m_pendingOpsIsPushers[q] THEN "push" ELSE "pop"

\* C33 (as amended): on every lock acquisition and release (the second and
\* third assertions of checkInvariant) and between operations: whenever
\* size < L, the role is pop or the pending-op list is empty (no pending
\* pusher if there is slack); whenever size > 0, the role is push or the
\* pending-op list is empty (no pending popper if the buffer has items).
C33_SlackAndItems ==
    /\ NoneFailed({"checkInvariant2", "checkInvariant3"})
    /\ \A q \in Queues :
           alive(q) =>
               /\ Size(q) < m_limit[q] => Role(q) = "pop" \/ m_pendingOps[q] = <<>>
               /\ Size(q) > 0 => Role(q) = "push" \/ m_pendingOps[q] = <<>>

\* Two pushes are parked on a full buffer of positive capacity.
C33_Witness ==
    /\ m_limit[1] > 0 /\ Size(1) = m_limit[1]
    /\ Role(1) = "push" /\ Len(m_pendingOps[1]) = 2

\* C33 as stated: whenever size = L, the role is pop or the pending-op list
\* is empty; whenever size = 0, the role is push or the list is empty.
C33_AsStated ==
    \A q \in Queues :
        alive(q) =>
            /\ Size(q) = m_limit[q] => Role(q) = "pop" \/ m_pendingOps[q] = <<>>
            /\ Size(q) = 0 => Role(q) = "push" \/ m_pendingOps[q] = <<>>

\* The places of events where kind happens to the node of handler h.
At(events, kind, h) ==
    {i \in DOMAIN events : events[i][1] = kind /\ events[i][2] = h}

\* In events the node of h is unlinked, its functor moved out, the node
\* destroyed, its memory given back to allocator a, and the completion of h
\* posted: each once, in this order.
FiredInOrder(events, h, a) ==
    LET U == At(events, "unlink", h)
        M == At(events, "move", h)
        D == At(events, "destroy", h)
        F == At(events, "deallocate", h)
        P == At(events, "post", h)
        Before(S, T) == \A i \in S : \A j \in T : i < j
    IN  /\ \A S \in {U, M, D, F, P} : Cardinality(S) = 1
        /\ Before(U, M) /\ Before(M, D) /\ Before(D, F) /\ Before(F, P)
        /\ \A f \in F : events[f][3] = a

\* The allocator the node of h was allocated with in events.
AllocatedWith(events, h) == {events[i][3] : i \in At(events, "allocate", h)}

\* C34: whatever operation fires a parked operation, from its own list
\* position: the node is unlinked, the captured state is moved out, the node
\* is destroyed and its memory given back to the allocator chosen when it was
\* inserted, and only then is the completion posted; no handler is called by
\* the operation, so the handler runs after the deallocation, and a handler
\* that has its completion has no node in a list.
C34_DeallocatedBeforePosted ==
    /\ \A h \in DOMAIN completions : completions[h] # <<>> => h \notin AllParkedIds
    /\ \A q \in Queues :
           alive(q) =>
               /\ \A o \in CallOrDestructor(q) :
                      /\ o.c.invoked = <<>>
                      /\ \A i \in DOMAIN m_pendingOps[q] :
                             LET fn == m_pendingOps[q][i]
                             IN  IF fn.id \in ParkedIds(o.c.m_pendingOps)
                                 THEN At(o.c.events, "unlink", fn.id) = {}
                                        /\ At(o.c.events, "deallocate", fn.id) = {}
                                        /\ At(o.c.events, "post", fn.id) = {}
                                 ELSE FiredInOrder(o.c.events, fn.id,
                                                   rebindAllocFrom(fn, getDefAlloc))
               /\ \A parked \in {initPush(Self(q), nextId, nextId), initPop(Self(q), nextId)} :
                      nextId \in ParkedIds(parked.m_pendingOps) =>
                          LET events == cancel(parked).c.events
                          IN  \E a \in AllocatedWith(events, nextId) :
                                  /\ AllocatedWith(events, nextId) = {a}
                                  /\ FiredInOrder(events, nextId, a)
                                  /\ \A i \in At(events, "allocate", nextId) :
                                         \A j \in At(events, "unlink", nextId) : i < j

\* Two operations are parked, one whose handler has an allocator of its own
\* and one without, and cancel() called now fires both.
C34_Witness ==
    /\ Len(m_pendingOps[1]) = 2
    /\ {rebindAllocFrom(fn, getDefAlloc) : fn \in {m_pendingOps[1][i] : i \in {1, 2}}}
           = {getDefAlloc, m_pendingOps[1][1].id}
    /\ Len(cancel(Self(1)).c.events) = 12
    /\ cancel(Self(1)).ret = 2

\* The sizes the buffer of c has had after the insertions of the operation.
SizesReached(c) ==
    {c.events[i][3] : i \in {j \in DOMAIN c.events : c.events[j][1] = "emplace"}}

\* The operation that left c has had more than limit elements in the buffer.
Exceeds(c) == \E n \in SizesReached(c) : n > c.m_limit

\* What q looks like after a push (asyncPush or tryPush) called now, after a
\* pop (asyncPop or tryPop), and after every other operation.
AfterPush(q) == {initPush(Self(q), nextId, nextId), tryPush(Self(q), nextId).c}

AfterPop(q) == {initPop(Self(q), nextId), tryPop(Self(q), nextId).c}

AfterOther(q) ==
    {reset(Self(q)), destructor(Self(q))}
        \cup {CancelCall(f, Self(q)).c : f \in CancelOps}
        \cup {close(Self(q), ec) : ec \in CloseArgs}

\* C35 (as amended): the buffer holds more than limit elements only inside
\* one locked operation that serves a parked operation, and never more than
\* limit + 1: in a push that meets a parked pop on a queue of limit 0, and in
\* a pop that fires a parked push, on the full buffer of any limit; at every
\* insertion the precondition of doPush holds, and the lock is released with
\* size <= limit.
C35_ExcessOnlyTransient ==
    /\ NoneFailed({"doPush", "checkInvariant1"})
    /\ \A q \in Queues :
           alive(q) =>
               /\ Size(q) <= m_limit[q]
               /\ \A c \in AfterPush(q) \cup AfterPop(q) \cup AfterOther(q) :
                      /\ c.failed = {}
                      /\ \A n \in SizesReached(c) : n <= m_limit[q] + 1
                      /\ Len(c.m_queue) <= m_limit[q]
               /\ \A c \in AfterPush(q) :
                      Exceeds(c) <=> m_limit[q] = 0 /\ hasPendingPop(Self(q))
               /\ \A c \in AfterPop(q) :
                      Exceeds(c) <=> hasPendingPush(Self(q))
               /\ \A c \in AfterOther(q) : ~Exceeds(c)

\* A push is parked on the full buffer of a queue of limit 2, and a tryPop
\* called now has limit + 1 elements in the buffer before it takes the oldest.
C35_Witness ==
    /\ m_limit[1] = 2 /\ Size(1) = m_limit[1] /\ hasPendingPush(Self(1))
    /\ Exceeds(tryPop(Self(1), nextId).c)
    /\ Len(tryPop(Self(1), nextId).c.m_queue) = m_limit[1]

\* C35 as stated: the buffer holds more than limit elements only inside an
\* operation on a queue of limit 0.
C35_AsStated ==
    \A q \in Queues :
        alive(q) =>
            \A c \in AfterPush(q) \cup AfterPop(q) \cup AfterOther(q) :
                Exceeds(c) => m_limit[q] = 0

\* C36: on a queue of limit >= 1 whose buffer is full and which has parked
\* pushes, asyncPop completes with ok and the oldest buffered element, and
\* tryPop returns it; either fires the oldest parked push and no other, with
\* ok, appends the element of that push at the back of the buffer, and leaves
\* size = limit and one parked push fewer. The list and the buffer hold the
\* operations and the elements in the order of their numbers, oldest first.
C36_PopOnFullFiresOldestPush ==
    \A q \in Queues :
        alive(q) /\ m_limit[q] >= 1 /\ Size(q) = m_limit[q] /\ hasPendingPush(Self(q)) =>
            LET buf == m_queue[q]
                old == m_pendingOps[q]
                a == initPop(Self(q), nextId)
                t == tryPop(Self(q), nextId)
            IN  /\ \A i, j \in DOMAIN old : i < j => old[i].id < old[j].id
                /\ \A i, j \in DOMAIN buf : i < j => buf[i] < buf[j]
                /\ a.posted = <<PushCompletion(old[1].id, OK),
                                PopCompletion(nextId, OK, Head(buf))>>
                /\ t.ret /\ t.val = Head(buf)
                /\ t.c.posted = <<PushCompletion(old[1].id, OK)>>
                /\ \A c \in {a, t.c} :
                       /\ c.m_queue = Append(Tail(buf), old[1].val)
                       /\ Len(c.m_queue) = m_limit[q]
                       /\ c.m_pendingOps = Tail(old)
                       /\ Len(c.m_pendingOps) = Len(old) - 1
                       /\ c.failed = {}

\* Two pushes are parked on the full buffer of a queue of limit 1, and a
\* tryPop called now succeeds and leaves one of them parked.
C36_Witness ==
    /\ m_limit[1] = 1 /\ Size(1) = 1 /\ Len(m_pendingOps[1]) = 2
    /\ hasPendingPush(Self(1))
    /\ tryPop(Self(1), nextId).ret
    /\ Len(tryPop(Self(1), nextId).c.m_pendingOps) = 1

\* C37: tryPush on a queue with parked pops succeeds and posts one completion
\* and no more: that of the oldest parked pop, with ok and the value pushed,
\* and the buffer is empty afterwards; tryPop on a queue with parked pushes
\* succeeds and posts one completion and no more: that of the oldest parked
\* push, with ok, whose element goes to the back of the buffer while the
\* front one is returned, or, with limit 0, is the element returned.
C37_TryDispatchesOne ==
    \A q \in Queues :
        alive(q) =>
            LET buf == m_queue[q]
                old == m_pendingOps[q]
                pu == tryPush(Self(q), nextId)
                po == tryPop(Self(q), nextId)
            IN  /\ hasPendingPop(Self(q)) =>
                       /\ pu.ret
                       /\ pu.c.posted = <<PopCompletion(old[1].id, OK, nextId)>>
                       /\ pu.c.m_queue = <<>>
                       /\ pu.c.m_pendingOps = Tail(old)
                       /\ pu.c.invoked = <<>> /\ pu.c.failed = {}
                /\ hasPendingPush(Self(q)) =>
                       /\ po.ret
                       /\ po.c.posted = <<PushCompletion(old[1].id, OK)>>
                       /\ po.c.m_pendingOps = Tail(old)
                       /\ po.c.invoked = <<>> /\ po.c.failed = {}
                       /\ IF m_limit[q] = 0
                          THEN po.val = old[1].val /\ po.c.m_queue = <<>>
                          ELSE po.val = Head(buf)
                                 /\ po.c.m_queue = Append(Tail(buf), old[1].val)

\* On a queue of limit 0 a tryPush has served a parked pop, which has its
\* completion while the tryPush has none, and a push is parked now, which a
\* tryPop called now serves.
C37_Witness ==
    /\ m_limit[1] = 0 /\ hasPendingPush(Self(1))
    /\ tryPop(Self(1), nextId).val = m_pendingOps[1][1].val
    /\ \E d \in delivered[1] :
           /\ d[1] \in parkedEver
           /\ completions[d[1]] = <<OK>>
           /\ completions[d[2]] = <<>>

\* The number of events of kind among the first k of events.
CountUpTo(events, kind, k) ==
    Cardinality({i \in DOMAIN events : i <= k /\ events[i][1] = kind})

\* The work the executor has outstanding after the first k events of an
\* operation on a queue that had parked operations parked, when nothing else
\* keeps the executor: one per work guard held by a node, linked or being
\* fired, and one per handler posted.
WorkAt(parked, events, k) ==
    parked + CountUpTo(events, "allocate", k) + CountUpTo(events, "post", k)
        - CountUpTo(events, "release", k)

\* C38: whatever operation fires a parked operation, its work guard is
\* released only after its completion has been posted, so from the unlinking
\* of its node to the end of the operation the executor has outstanding work
\* even if nothing else keeps it; and while a posted handler has not run the
\* executor has outstanding work and run() cannot return.
C38_WorkHeldUntilPosted ==
    /\ inFlight > 0 => outstandingWork >= inFlight /\ ~RunCanReturn
    /\ \A q \in Queues :
           alive(q) =>
               \A o \in CallOrDestructor(q) :
                   LET events == o.c.events
                   IN  \A i \in DOMAIN m_pendingOps[q] :
                           LET h == m_pendingOps[q][i].id
                           IN  h \notin ParkedIds(o.c.m_pendingOps) =>
                                   /\ Cardinality(At(events, "release", h)) = 1
                                   /\ \A p \in At(events, "post", h) :
                                          \A r \in At(events, "release", h) : p < r
                                   /\ \A u \in At(events, "unlink", h) :
                                          \A k \in u..Len(events) :
                                              WorkAt(Len(m_pendingOps[q]), events, k) >= 1

\* One operation is parked and nothing else keeps the executor: every
\* handler posted so far has run, and cancel() called now fires it.
C38_Witness ==
    /\ Len(m_pendingOps[1]) = 1 /\ inFlight = 0 /\ outstandingWork = 1
    /\ \E h \in DOMAIN completions : completions[h] # <<>>
    /\ cancel(Self(1)).ret = 1
    /\ WorkAt(1, cancel(Self(1)).c.events, Len(cancel(Self(1)).c.events)) = 1

\* C39 as stated: in the two-list queue, reset() called now on a queue with
\* limit >= 1 and pushes parked passes every assertion of checkInvariant at
\* every LockGuard it constructs and destroys, the one cancel() takes after
\* reset() has emptied the buffer included.
C39_AsStated ==
    m_limit[1] >= 1 /\ m_pendingPush # <<>> =>
        TwoLists_reset(TwoLists_Self).c.failed = {}

\* The objects of the move under way.
Involved == IF moving.kind = "assign" THEN {moving.this, moving.other} ELSE {moving.other}

\* What the objects of the move were when it began, and what the whole move
\* makes of that.
BeforeMove == [this |-> MembersOf(moving.before[1]), other |-> MembersOf(moving.before[2])]

AfterMove ==
    LET r == IF moving.kind = "assign"
             THEN moveAssign(moving.before[1], moving.before[2])
             ELSE moveConstruct(moving.before[2])
    IN  [this |-> MembersOf(r.this), other |-> MembersOf(r.other)]

NowMove == [this |-> MembersOf(Self(moving.this)), other |-> MembersOf(Self(moving.other))]

\* C40: from the first member a move-construction or a move-assignment
\* touches to the last the moving thread holds the mutex of the source, and
\* for an assignment that of the destination too, so no operation of another
\* thread on these objects runs in between: whenever the mutex of an object
\* of a move under way is free, that is when an operation on it can run, the
\* objects are as they were before the move or as the whole move leaves them;
\* and when the mutexes are given back the objects are as the whole move
\* leaves them.
C40_MovesAtomic ==
    moving.pc # "idle" =>
        /\ \A q \in Involved : m_mutex[q] = 1
        /\ (\E q \in Involved : m_mutex[q] = 0) => NowMove \in {BeforeMove, AfterMove}
        /\ moving.pc = "locked" => NowMove = BeforeMove
        /\ \/ moving.pc = "cleared"
           \/ moving.pc = "taken" /\ moving.kind = "construct"
           => NowMove = AfterMove

\* A move-assignment is at its end, the mutexes not yet given back: it has
\* taken a buffer with an element and a parked operation from the source.
C40_Witness ==
    /\ moving.pc = "cleared" /\ moving.kind = "assign"
    /\ m_queue[moving.this] # <<>> /\ m_pendingOps[moving.this] # <<>>
    /\ m_mutex[moving.this] = 1 /\ m_mutex[moving.other] = 1

====
